---- MODULE Spec2Model ----
(***************************************************************************)
(* The rule engine of apps/rca/rule_engine: preprocessing, dispatch of the *)
(* recognizers on a thread pool with per-future timeouts, fusion of their  *)
(* results and slot filling.  One behaviour is one call of                 *)
(* RuleEngine.process on an engine built by RuleEngine.__init__.           *)
(*                                                                         *)
(* Texts are sequences of one-character strings.  A compiled pattern is a  *)
(* literal with an optional named group around it ("(?P<g>lit)") and the   *)
(* "i" flag.  Confidences are exact fractions [n, d].  Time is counted in  *)
(* ticks of a sixth of a second; a parse call runs an even number of      *)
(* ticks and timeout_per_recognizer is 3 ticks, so that a call that        *)
(* started when it was submitted never finishes at the very instant at     *)
(* which the wait on it expires.                                           *)
(***************************************************************************)
EXTENDS Integers, Sequences, FiniteSets, TLC

\* None where a string is expected (an absent key, no intent).
None == "<None>"

\* None where an object is expected (no match, no result, no collaborator).
Null == [null |-> TRUE]

\* The empty dict.
EmptyDict == [k \in {} |-> None]

Min2(a, b) == IF a <= b THEN a ELSE b
Max2(a, b) == IF a >= b THEN a ELSE b

----------------------------------------------------------------------------
(* Exact fractions for the float confidences.                               *)

RECURSIVE GCD(_, _)
GCD(a, b) == IF b = 0 THEN a ELSE GCD(b, a % b)

Rat(n, d) == LET g == GCD(n, d) IN IF g = 0 THEN [n |-> 0, d |-> 1] ELSE [n |-> n \div g, d |-> d \div g]
RAdd(a, b) == Rat(a.n * b.d + b.n * a.d, a.d * b.d)
RMul(a, b) == Rat(a.n * b.n, a.d * b.d)
RLt(a, b) == a.n * b.d < b.n * a.d
RLeq(a, b) == a.n * b.d <= b.n * a.d
RMin(a, b) == IF RLeq(a, b) THEN a ELSE b
RZero == Rat(0, 1)
ROne == Rat(1, 1)

----------------------------------------------------------------------------
(* str methods used by the engine.                                          *)

Lower(c) == IF c = "F" THEN "f" ELSE IF c = "T" THEN "t" ELSE c
LowerText(t) == [k \in 1..Len(t) |-> Lower(t[k])]

RECURSIVE LStrip(_)
LStrip(t) == IF t # <<>> /\ Head(t) = " " THEN LStrip(Tail(t)) ELSE t
RECURSIVE RStrip(_)
RStrip(t) == IF t # <<>> /\ t[Len(t)] = " " THEN RStrip(SubSeq(t, 1, Len(t) - 1)) ELSE t
Strip(t) == RStrip(LStrip(t))

\* The positions at which sub occurs in t.
Occurrences(sub, t) == {p \in 1..(Len(t) - Len(sub) + 1) : SubSeq(t, p, p + Len(sub) - 1) = sub}
\* sub in t
Contains(sub, t) == Occurrences(sub, t) # {}

----------------------------------------------------------------------------
(* re: a compiled pattern is [pattern, ignorecase, group, span, unmatched]:  *)
(* the literal, the named group around the characters span[1]..span[2] of   *)
(* it (around all of it by default), and a second named group in an         *)
(* alternative that never matches, as in "(?P<g>lit)|(?P<u>\b\B)".          *)

NoGroup == "<nogroup>"

\* The value None of a named group that took no part in the match.
NoMatch == <<None>>

\* re.compile of one rule {"pattern": ..., "flags": ...}.
Compile(p) ==
    [pattern |-> p.pattern, ignorecase |-> (p.flags = "i" \/ p.flags = "I"), group |-> p.group,
     span |-> IF "span" \in DOMAIN p THEN p.span ELSE <<1, Len(p.pattern)>>,
     unmatched |-> IF "unmatched" \in DOMAIN p THEN p.unmatched ELSE NoGroup]

\* pattern.search(text): Null, or the match object [group0, groupdict].
PatternSearch(cp, text) ==
    LET occ == IF cp.ignorecase
               THEN Occurrences(LowerText(cp.pattern), LowerText(text))
               ELSE Occurrences(cp.pattern, text)
    IN IF occ = {} THEN Null
       ELSE LET p == CHOOSE q \in occ : \A r \in occ : q <= r
                g0 == SubSeq(text, p, p + Len(cp.pattern) - 1)
            IN [group0 |-> g0,
                groupdict |-> (IF cp.group = NoGroup THEN EmptyDict
                               ELSE cp.group :> SubSeq(text, p + cp.span[1] - 1, p + cp.span[2] - 1))
                              @@ (IF cp.unmatched = NoGroup THEN EmptyDict ELSE cp.unmatched :> NoMatch)]

\* The compile loop shared by RegexMatcher and SlotFiller: rules with an
\* empty pattern are skipped.
CompileList(rules) == LET kept == SelectSeq(rules, LAMBDA p : p.pattern # <<>>)
                      IN [k \in 1..Len(kept) |-> Compile(kept[k])]

----------------------------------------------------------------------------
(* IntentResult and the three built-in recognizers.                         *)

IntentResult(intent, confidence, recognizer, slots, raw_matches, metadata) ==
    [intent |-> intent, confidence |-> confidence, recognizer |-> recognizer,
     slots |-> slots, raw_matches |-> raw_matches, metadata |-> metadata]

\* dict.setdefault(key, value) on a dict modelled as a function.
SetDefault(dict, key, value) == IF key \in DOMAIN dict THEN dict ELSE dict @@ (key :> value)

\* RegexMatcher._compile_patterns: intent -> compiled list, in file order.
CompilePatterns(regex_patterns) ==
    [k \in 1..Len(regex_patterns.intents) |->
        [intent |-> regex_patterns.intents[k].intent,
         patterns |-> CompileList(regex_patterns.intents[k].patterns)]]

\* The (intent, pattern) pairs in the order of the two nested loops of parse.
RECURSIVE FlattenPatterns(_)
FlattenPatterns(compiled) ==
    IF compiled = <<>> THEN <<>>
    ELSE [k \in 1..Len(Head(compiled).patterns) |->
             [intent |-> Head(compiled).intent, cp |-> Head(compiled).patterns[k]]]
         \o FlattenPatterns(Tail(compiled))

\* confidence = 0.9 + min(len(match.group(0)) / max(len(text), 1) * 0.1, 0.1)
RegexConfidence(match, text) ==
    RAdd(Rat(9, 10),
         RMin(RMul(Rat(Len(match.group0), Max2(Len(text), 1)), Rat(1, 10)), Rat(1, 10)))

\* The loop body of RegexMatcher.parse over the remaining pairs.
RECURSIVE RegexScan(_, _, _)
RegexScan(pairs, text, st) ==
    IF pairs = <<>> THEN st
    ELSE LET pr == Head(pairs)
             match == PatternSearch(pr.cp, text)
         IN IF match = Null THEN RegexScan(Tail(pairs), text, st)
            ELSE LET confidence == RegexConfidence(match, text)
                     better == RLt(st.best_confidence, confidence)
                     hit == [intent |-> pr.intent, pattern |-> pr.cp.pattern, groups |-> match.groupdict]
                 IN RegexScan(Tail(pairs), text,
                        [best_intent |-> IF better THEN pr.intent ELSE st.best_intent,
                         best_confidence |-> IF better THEN confidence ELSE st.best_confidence,
                         best_groups |-> IF better THEN match.groupdict ELSE st.best_groups,
                         all_matches |-> Append(st.all_matches, hit)])

\* all_matches: intent -> list of {"pattern", "groups"}.
AllMatches(hits) ==
    [it \in {hits[k].intent : k \in 1..Len(hits)} |->
        LET mine == SelectSeq(hits, LAMBDA h : h.intent = it)
        IN [k \in 1..Len(mine) |-> [pattern |-> mine[k].pattern, groups |-> mine[k].groups]]]

\* RegexMatcher.parse
RegexParse(compiled, text) ==
    IF compiled = <<>> THEN Null
    ELSE LET st == RegexScan(FlattenPatterns(compiled), text,
                       [best_intent |-> None, best_confidence |-> RZero,
                        best_groups |-> EmptyDict, all_matches |-> <<>>])
         IN IF st.best_intent = None THEN Null
            ELSE IntentResult(st.best_intent, RMin(st.best_confidence, ROne), "regex",
                              st.best_groups, AllMatches(st.all_matches), EmptyDict)

\* The number of keywords of kws that occur in the lower-cased text.
RECURSIVE CountHits(_, _)
CountHits(kws, text_lower) ==
    IF kws = <<>> THEN 0
    ELSE (IF Contains(LowerText(Head(kws)), text_lower) THEN 1 ELSE 0) + CountHits(Tail(kws), text_lower)

\* KeywordMatcher._score_intent without the cap of 0.85.
ScoreIntent_Uncapped(text, conf) ==
    LET text_lower == LowerText(text)
        hit == CountHits(conf.keywords, text_lower)
    IN IF \E k \in 1..Len(conf.exclude_keywords) : Contains(LowerText(conf.exclude_keywords[k]), text_lower)
       THEN RZero
       ELSE IF \E k \in 1..Len(conf.must_keywords) : ~Contains(LowerText(conf.must_keywords[k]), text_lower)
       THEN RZero
       ELSE IF conf.keywords = <<>> THEN RZero
       ELSE RMul(Rat(hit, Len(conf.keywords)), conf.weight)

\* KeywordMatcher._score_intent
ScoreIntent(text, conf) ==
    LET text_lower == LowerText(text)
        hit == CountHits(conf.keywords, text_lower)
    IN IF \E k \in 1..Len(conf.exclude_keywords) : Contains(LowerText(conf.exclude_keywords[k]), text_lower)
       THEN RZero
       ELSE IF \E k \in 1..Len(conf.must_keywords) : ~Contains(LowerText(conf.must_keywords[k]), text_lower)
       THEN RZero
       ELSE IF conf.keywords = <<>> THEN RZero
       ELSE IF hit = 0 THEN RZero
       ELSE RMin(RMul(Rat(hit, Len(conf.keywords)), conf.weight), Rat(85, 100))

\* The loop of KeywordMatcher.parse keeping the last of the intents of equal
\* score.
RECURSIVE KeywordScan_LastWins(_, _, _)
KeywordScan_LastWins(confs, text, st) ==
    IF confs = <<>> THEN st
    ELSE LET score == ScoreIntent(text, Head(confs))
             better == RLeq(st.best_confidence, score)
         IN KeywordScan_LastWins(Tail(confs), text,
                [best_intent |-> IF better THEN Head(confs).intent ELSE st.best_intent,
                 best_confidence |-> IF better THEN score ELSE st.best_confidence])

\* The loop of KeywordMatcher.parse over the remaining intents.
RECURSIVE KeywordScan(_, _, _)
KeywordScan(confs, text, st) ==
    IF confs = <<>> THEN st
    ELSE LET score == ScoreIntent(text, Head(confs))
             better == RLt(st.best_confidence, score)
         IN KeywordScan(Tail(confs), text,
                [best_intent |-> IF better THEN Head(confs).intent ELSE st.best_intent,
                 best_confidence |-> IF better THEN score ELSE st.best_confidence])

\* KeywordMatcher.parse
KeywordParse(keywords_conf, text) ==
    IF keywords_conf = <<>> THEN Null
    ELSE LET st == KeywordScan(keywords_conf, text, [best_intent |-> None, best_confidence |-> RZero])
             raw_scores == [it \in {keywords_conf[k].intent : k \in 1..Len(keywords_conf)} |->
                               LET k == CHOOSE j \in 1..Len(keywords_conf) : keywords_conf[j].intent = it
                               IN ScoreIntent(text, keywords_conf[k])]
         IN IF st.best_intent = None \/ RLeq(st.best_confidence, RZero) THEN Null
            ELSE IntentResult(st.best_intent, st.best_confidence, "keyword",
                              EmptyDict, [scores |-> raw_scores], EmptyDict)

\* The short-utterance threshold of FSMProcessor.parse.
ShortTextLen == 10

\* FSMProcessor.parse measuring the text as it is handed over.
FsmParse_Unstripped(text, context) ==
    LET last_intent == context.last_intent
    IN IF last_intent # None /\ last_intent # "" /\ Len(text) < ShortTextLen
       THEN IntentResult(last_intent, Rat(4, 10), "fsm", EmptyDict,
                         [source |-> "last_intent"], [fsm_reason |-> "continue_last_intent"])
       ELSE Null

\* FSMProcessor.parse: context.get("last_intent") is None for an absent key,
\* and None and "" are both falsy.
FsmParse(text, context) ==
    LET last_intent == context.last_intent
    IN IF last_intent # None /\ last_intent # "" /\ Len(Strip(text)) < ShortTextLen
       THEN IntentResult(last_intent, Rat(4, 10), "fsm", EmptyDict,
                         [source |-> "last_intent"], [fsm_reason |-> "continue_last_intent"])
       ELSE Null

----------------------------------------------------------------------------
(* ConfigManager: the three rule files as loaded by _load_all.              *)

\* intents.json
IntentsFile(unknown_intent) ==
    [intents |-> << [name |-> "book_flight",
                     slots |-> << [name |-> "destination", required |-> TRUE],
                                  [name |-> "date", required |-> TRUE],
                                  [name |-> "seat", required |-> FALSE] >>],
                    [name |-> "status",
                     slots |-> << [name |-> "date", required |-> FALSE] >>],
                    [name |-> "cancel", slots |-> <<>>] >>,
     unknown_intent |-> unknown_intent]

\* keywords.json
KeywordsFile ==
    << [intent |-> "book_flight", keywords |-> << <<"f", "l">>, <<"t", "k">> >>,
        must_keywords |-> <<>>, exclude_keywords |-> << <<"n", "o">> >>, weight |-> Rat(1, 1)],
       [intent |-> "status", keywords |-> << <<"s">>, <<"q">> >>,
        must_keywords |-> << <<"s">> >>, exclude_keywords |-> <<>>, weight |-> Rat(4, 5)] >>

\* regex_patterns.json
RegexPatternsFile ==
    [intents |-> << [intent |-> "book_flight",
                     patterns |-> << [pattern |-> <<"f", "l", "y">>, flags |-> "i", group |-> "destination"] >>],
                    [intent |-> "cancel",
                     patterns |-> << [pattern |-> <<>>, flags |-> "", group |-> NoGroup],
                                     [pattern |-> <<"c", "x">>, flags |-> "", group |-> NoGroup] >>] >>,
     slots |-> << [slot |-> "destination",
                   patterns |-> << [pattern |-> <<"t", "o">>, flags |-> "i", group |-> "destination"] >>],
                  [slot |-> "date",
                   patterns |-> << [pattern |-> <<"d", "1">>, flags |-> "", group |-> "day"],
                                   [pattern |-> <<"d">>, flags |-> "", group |-> "date"] >>] >>]

\* A rule file of config_dir: well-formed JSON with its parsed content,
\* absent, or not well-formed JSON.
File(content) == [state |-> "ok", content |-> content]
MissingFile == [state |-> "missing"]
MalformedFile == [state |-> "malformed"]

\* ConfigManager.__init__ / _load_all
ConfigManager(unknown_intent) ==
    [intents |-> IntentsFile(unknown_intent), keywords |-> KeywordsFile, regex_patterns |-> RegexPatternsFile]

UNKNOWN_INTENT == "unknown"

\* ConfigManager.get_intent_slots (with get_intent_def): the slots of the
\* first intent of that name, [] when there is none.
GetIntentSlots(cfg, intent_name) ==
    LET defs == SelectSeq(cfg.intents.intents, LAMBDA d : d.name = intent_name)
    IN IF defs = <<>> THEN <<>> ELSE Head(defs).slots

\* get_unknown_intent_name without the lookup of "unknown_intent".
GetUnknownIntentName_Default(cfg) == UNKNOWN_INTENT

\* ConfigManager.get_unknown_intent_name
GetUnknownIntentName(cfg) ==
    IF cfg.intents.unknown_intent = None THEN UNKNOWN_INTENT ELSE cfg.intents.unknown_intent

----------------------------------------------------------------------------
(* Fusion.                                                                  *)

\* RuleEngine._build_unknown_result
BuildUnknownResult(cfg, reason) ==
    IntentResult(GetUnknownIntentName(cfg), RZero, "system", EmptyDict, EmptyDict, [reason |-> reason])

\* The last of the maxima instead of the first.
MaxByConfidence_Last(rs) ==
    rs[CHOOSE k \in 1..Len(rs) :
          /\ \A j \in 1..Len(rs) : RLeq(rs[j].confidence, rs[k].confidence)
          /\ \A j \in (k + 1)..Len(rs) : RLt(rs[j].confidence, rs[k].confidence)]

\* max(rs, key=lambda r: r.confidence): the first of the maxima.
MaxByConfidence(rs) ==
    rs[CHOOSE k \in 1..Len(rs) :
          /\ \A j \in 1..Len(rs) : RLeq(rs[j].confidence, rs[k].confidence)
          /\ \A j \in 1..(k - 1) : RLt(rs[j].confidence, rs[k].confidence)]

\* metadata.setdefault("fusion_reason", reason) on the chosen result.
Tagged(r, reason) == [r EXCEPT !.metadata = SetDefault(r.metadata, "fusion_reason", reason)]

\* _fuse_results without the priority of the pattern-sourced results.
FuseResults_NoPriority(cfg, rs) ==
    IF rs = <<>> THEN IntentResult(GetUnknownIntentName(cfg), RZero, "system", EmptyDict, EmptyDict,
                                   [reason |-> "no_valid_result"])
    ELSE LET best == CHOOSE k \in 1..Len(rs) :
                         /\ \A j \in 1..Len(rs) : RLeq(rs[j].confidence, rs[k].confidence)
                         /\ \A j \in 1..(k - 1) : RLt(rs[j].confidence, rs[k].confidence)
         IN [rs[best] EXCEPT !.metadata = SetDefault(rs[best].metadata, "fusion_reason", "max_confidence")]

\* RuleEngine._fuse_results
FuseResults(cfg, rs) ==
    IF rs = <<>> THEN BuildUnknownResult(cfg, "no_valid_result")
    ELSE LET regex_results == SelectSeq(rs, LAMBDA r : r.recognizer = "regex")
         IN IF regex_results # <<>> /\ RLeq(Rat(8, 10), MaxByConfidence(regex_results).confidence)
            THEN Tagged(MaxByConfidence(regex_results), "regex_confidence_over_0.8")
            ELSE Tagged(MaxByConfidence(rs), "max_confidence")

----------------------------------------------------------------------------
(* The default slot filler.                                                 *)

\* SlotFiller._compile_slot_patterns
CompileSlotPatterns(regex_patterns) ==
    [k \in 1..Len(regex_patterns.slots) |->
        [slot |-> regex_patterns.slots[k].slot,
         patterns |-> CompileList(regex_patterns.slots[k].patterns)]]

\* self._slot_patterns.get(name, [])
SlotPatternsOf(slot_patterns, name) ==
    LET mine == SelectSeq(slot_patterns, LAMBDA e : e.slot = name)
    IN IF mine = <<>> THEN <<>> ELSE Head(mine).patterns

\* The inner loop of fill_slots taking the whole match of the first pattern
\* that matches.
RECURSIVE FirstSlotMatch_WholeMatch(_, _, _)
FirstSlotMatch_WholeMatch(patterns, name, original_text) ==
    IF patterns = <<>> THEN Null
    ELSE LET m == PatternSearch(Head(patterns), original_text)
         IN IF m = Null THEN FirstSlotMatch_WholeMatch(Tail(patterns), name, original_text)
            ELSE [value |-> m.group0]

\* The inner loop of fill_slots: the value of the first pattern that matches,
\* the group named like the slot when the pattern has it, else the whole match.
RECURSIVE FirstSlotMatch(_, _, _)
FirstSlotMatch(patterns, name, original_text) ==
    IF patterns = <<>> THEN Null
    ELSE LET m == PatternSearch(Head(patterns), original_text)
         IN IF m = Null THEN FirstSlotMatch(Tail(patterns), name, original_text)
            ELSE [value |-> IF name \in DOMAIN m.groupdict THEN m.groupdict[name] ELSE m.group0]

\* The regex pass of fill_slots over the remaining slot definitions.
RECURSIVE RegexPass(_, _, _, _)
RegexPass(slots_def, slot_patterns, slots, original_text) ==
    IF slots_def = <<>> THEN slots
    ELSE LET name == Head(slots_def).name
             found == FirstSlotMatch(SlotPatternsOf(slot_patterns, name), name, original_text)
         IN IF name = None \/ name = "" \/ name \in DOMAIN slots \/ found = Null
            THEN RegexPass(Tail(slots_def), slot_patterns, slots, original_text)
            ELSE RegexPass(Tail(slots_def), slot_patterns, slots @@ (name :> found.value), original_text)

\* The slots that are absent, required or not.
MissingRequired_AnySlot(slots_def, slots) ==
    SelectSeq(slots_def, LAMBDA sd : sd.name \notin DOMAIN slots)

\* missing = [s["name"] for s in slots_def if s.get("required") and s["name"] not in slots]
MissingRequired(slots_def, slots) ==
    SelectSeq(slots_def, LAMBDA sd : sd.required /\ sd.name \notin DOMAIN slots)

\* llm_timeout of SlotFiller.__init__ (2.0 seconds), in ticks.
LlmTimeout == 12

\* merged = dict(current_slots); merged.update(new_slots)
MergeSlots(current_slots, new_slots) == new_slots @@ current_slots

\* _fill_slots_via_llm taking the mapping of the collaborator however
\* late it comes.
FillSlotsViaLLM_Late(llm, current_slots) ==
    IF llm = Null THEN current_slots
    ELSE IF llm.outcome = "raise" THEN current_slots
    ELSE IF llm.outcome = "nondict" THEN current_slots
    ELSE MergeSlots(current_slots, llm.value)

\* SlotFiller._fill_slots_via_llm: the slots it returns for a collaborator
\* llm = [outcome, value, dur].
FillSlotsViaLLM(llm, current_slots) ==
    IF llm = Null THEN current_slots
    ELSE IF llm.dur > LlmTimeout THEN current_slots
    ELSE IF llm.outcome = "raise" THEN current_slots
    ELSE IF llm.outcome = "nondict" THEN current_slots
    ELSE MergeSlots(current_slots, llm.value)

----------------------------------------------------------------------------
(* XwCustomSlotFiller: the classifier of the anomaly records.               *)
(*                                                                          *)
(* A record {segment: {start_time, end_time, satellites}} is the record     *)
(* [segment, start_time, end_time, satellites]; the empty mapping {} is the *)
(* record without fields.  satellites is Null (None), [keys |-> names] for  *)
(* a dict with these keys in insertion order, or NonDict.  Indices count    *)
(* from 1 where the code counts from 0.                                     *)

Satellites(names) == [keys |-> names]
NonDict == [nondict |-> TRUE]
\* isinstance(satellites, dict)
IsDict(satellites) == "keys" \in DOMAIN satellites
\* The record has a first item for the loop "for key, value in record.items()".
HasItem(record) == "satellites" \in DOMAIN record

\* str() of a time, the times being natural numbers.
Digits == <<"0", "1", "2", "3", "4", "5", "6", "7", "8", "9">>
RECURSIVE Str(_)
Str(n) == IF n < 10 THEN <<Digits[n + 1]>> ELSE Str(n \div 10) \o <<Digits[(n % 10) + 1]>>

\* The three keys of the result of _parse_anomalies.
multi_pass_key == "single_satellite-multi_pass_long_time"
single_pass_key == "single_satellite-single_pass"
multi_sat_key == "multi_satellite-joint"

\* result after the three lists are initialised.
EmptyAnomalies ==
    (multi_pass_key :> <<>>) @@ (single_pass_key :> <<>>) @@ (multi_sat_key :> <<>>)

\* satellite_count = len(satellites) if isinstance(satellites, dict) else 0
SatelliteCount(satellites) == IF IsDict(satellites) THEN Len(satellites.keys) ELSE 0

\* The record names the one satellite satellite_name.
NamesOnly(record, satellite_name) ==
    /\ HasItem(record)
    /\ record.satellites # Null
    /\ IsDict(record.satellites)
    /\ Len(record.satellites.keys) = 1
    /\ record.satellites.keys[1] = satellite_name

\* _classify_single_satellite looking only at the first satellite of the
\* next record.
ClassifySingleSatellite_FirstKey(data_list, current_idx, satellite_name) ==
    IF /\ current_idx + 1 <= Len(data_list)
       /\ HasItem(data_list[current_idx + 1])
       /\ data_list[current_idx + 1].satellites # Null
       /\ IsDict(data_list[current_idx + 1].satellites)
       /\ Len(data_list[current_idx + 1].satellites.keys) >= 1
       /\ data_list[current_idx + 1].satellites.keys[1] = satellite_name
    THEN "multi_pass_long_time"
    ELSE "single_pass"

\* XwCustomSlotFiller._classify_single_satellite
ClassifySingleSatellite(data_list, current_idx, satellite_name) ==
    IF current_idx + 1 <= Len(data_list) /\ NamesOnly(data_list[current_idx + 1], satellite_name)
    THEN "multi_pass_long_time"
    ELSE "single_pass"

\* The while loop of _find_same_satellite_end from index k on: a record
\* without item and a satellites value that is neither None nor a dict are
\* passed over.
RECURSIVE FindEndFrom(_, _, _)
FindEndFrom(data_list, k, satellite_name) ==
    IF k > Len(data_list) THEN Len(data_list)
    ELSE IF ~HasItem(data_list[k]) THEN FindEndFrom(data_list, k + 1, satellite_name)
    ELSE IF data_list[k].satellites = Null THEN k - 1
    ELSE IF ~IsDict(data_list[k].satellites) THEN FindEndFrom(data_list, k + 1, satellite_name)
    ELSE IF Len(data_list[k].satellites.keys) # 1 THEN k - 1
    ELSE IF data_list[k].satellites.keys[1] # satellite_name THEN k - 1
    ELSE FindEndFrom(data_list, k + 1, satellite_name)

\* _find_same_satellite_end stopping after the second record of the run.
FindSameSatelliteEnd_Two(data_list, start_idx, satellite_name) == start_idx + 1

\* XwCustomSlotFiller._find_same_satellite_end
FindSameSatelliteEnd(data_list, start_idx, satellite_name) ==
    FindEndFrom(data_list, start_idx + 1, satellite_name)

\* value.get('start_time') / value.get('end_time') of the first item, as str.
StartTimeStr(record) == IF HasItem(record) THEN Str(record.start_time) ELSE <<"N", "o", "n", "e">>
EndTimeStr(record) == IF HasItem(record) THEN Str(record.end_time) ELSE <<"N", "o", "n", "e">>

\* XwCustomSlotFiller._extract_multi_pass_info
ExtractMultiPassInfo(data_list, start_idx, end_idx, satellite_name) ==
    [satellite |-> satellite_name,
     start_time |-> StartTimeStr(data_list[start_idx]),
     end_time |-> EndTimeStr(data_list[end_idx]),
     pass_count |-> end_idx - start_idx + 1]

\* XwCustomSlotFiller._extract_single_pass_info
ExtractSinglePassInfo(record, satellite_name) ==
    [satellite |-> satellite_name, start_time |-> StartTimeStr(record), end_time |-> EndTimeStr(record)]

\* The entry of a record naming several satellites.
MultiSatInfo(record) ==
    [satellites |-> record.satellites.keys,
     start_time |-> Str(record.start_time),
     end_time |-> Str(record.end_time),
     note |-> "placeholder"]

\* result[key].append(info)
AppendTo(result, key, info) == [result EXCEPT ![key] = Append(@, info)]

----------------------------------------------------------------------------
(* The engine and one call of process().                                    *)

VARIABLES
    config,             \* RuleEngine.config (the ConfigManager)
    compiled_patterns,  \* RegexMatcher._compiled_patterns
    keywords_conf,      \* KeywordMatcher.keywords_conf
    slot_patterns,      \* SlotFiller._slot_patterns
    text_processor,     \* RuleEngine.text_processor: None, "lower" or "raise"
    recognizers,        \* RuleEngine.recognizers, with the running time of each parse call
    slot_fillers,       \* RuleEngine.slot_fillers
    llm_filler,         \* slot_fillers[0].llm_filler: Null or [outcome, value, dur]
    text,               \* process(text, context)
    context,
    pc,                 \* the position of process()
    now,                \* ticks since process() was entered
    preprocessed,       \* the text handed to the recognizers
    futures,            \* future_to_recognizer: [finish, outcome] per recognizer
    i,                  \* the index of the future the for loop waits on
    results,            \* the list results of _run_recognizers
    joined,             \* the indices of the recognizers whose result was appended
    loop_end,           \* the time at which the for loop over the futures ended
    fused,              \* the return value of _fuse_results
    slots,              \* the local slots of SlotFiller.fill_slots
    final_result,       \* the return value of process()
    selected_filler,    \* the local selected_filler of _fill_slots
    llm_calls,          \* the number of calls of llm_filler.fill_missing_slots
    xw_i,               \* the local i of XwCustomSlotFiller._parse_anomalies
    anomaly_result,     \* the local result of _parse_anomalies
    disk,               \* the rule files of config_dir
    load_pc,            \* the position of ConfigManager._load_all
    generations,        \* the rule files of config_dir since construction, oldest first
    executors,          \* the pool of each concurrent call of _run_recognizers
    sheet_reads,        \* the calls of XwCustomMatcher._parse_sheet_data so far
    xw_iters,           \* the iterations of the while loop of _parse_anomalies so far
    extra_disk,         \* a rule file of config_dir besides the three typed ones
    blocks              \* the attributes _load_all has set on the ConfigManager with setattr

engine == <<config, compiled_patterns, keywords_conf, slot_patterns, text_processor,
            recognizers, slot_fillers, llm_filler>>
request == <<text, context>>
\* The state of one call of process().
call == <<now, preprocessed, futures, i, results, joined, loop_end, fused, slots, final_result,
          selected_filler, llm_calls, sheet_reads>>
store == <<disk, load_pc, generations, extra_disk, blocks>>
anomaly == <<xw_i, anomaly_result, xw_iters>>
vars == <<config, compiled_patterns, keywords_conf, slot_patterns, text_processor,
          recognizers, slot_fillers, llm_filler, text, context, pc, now, preprocessed,
          futures, i, results, joined, loop_end, fused, slots, final_result,
          selected_filler, llm_calls, xw_i, anomaly_result, disk, load_pc, generations, executors,
          sheet_reads, xw_iters, extra_disk, blocks>>

\* timeout_per_recognizer (0.5 seconds), in ticks.
TimeoutPerRecognizer == 3

\* max_workers
MaxWorkers == 4

\* The outcome of a parse call that raised.
Raised == [raised |-> TRUE]

\* The three built-in recognizers of RuleEngine.__init__, a parse call of
\* each running for the given number of ticks.
BuiltinRecognizers(d_regex, d_keyword, d_fsm) ==
    << [name |-> "regex", kind |-> "regex", dur |-> d_regex, outcome |-> "parse", confidence |-> RZero],
       [name |-> "keyword", kind |-> "keyword", dur |-> d_keyword, outcome |-> "parse", confidence |-> RZero],
       [name |-> "fsm", kind |-> "fsm", dur |-> d_fsm, outcome |-> "parse", confidence |-> RZero] >>

\* An extra recognizer (a BaseIntentRecognizer subclass passed as
\* extra_recognizers): its parse returns a result of the given confidence,
\* returns None, or raises.
ExtraRecognizer(name, outcome, confidence, dur) ==
    [name |-> name, kind |-> "extra", dur |-> dur, outcome |-> outcome, confidence |-> confidence]

\* context.get(key, default)
CtxGet(ctx, key, default) == IF key \in DOMAIN ctx THEN ctx[key] ELSE default

\* What _parse_sheet_data returns for the sheet the recognizer is pointed
\* at: [data |-> records], or Raised when the sheet cannot be read.
Sheet(data_list) == [data |-> data_list]

\* An XwCustomMatcher registered as an extra recognizer: excel_types_config
\* maps an excel type to its [excel_path, sheet_name].
XwCustomMatcher(excel_types_config, sheet) ==
    [name |-> "ExcelIntentRecognizer", kind |-> "xw", dur |-> 0, outcome |-> "parse", confidence |-> ROne,
     default_excel_type |-> "merged", default_duration_threshold |-> 15, default_ignore_no_interruption |-> TRUE,
     excel_types_config |-> excel_types_config, sheet |-> sheet]

\* XwCustomMatcher.parse
XwParse(rec, ctx) ==
    IF ~CtxGet(ctx, "trigger_excel", FALSE) THEN Null
    ELSE LET excel_type == CtxGet(ctx, "excel_type", rec.default_excel_type)
         IN IF excel_type \notin DOMAIN rec.excel_types_config THEN Null
            ELSE LET type_config == rec.excel_types_config[excel_type]
                     execl_path == CtxGet(ctx, "execl_path", type_config.excel_path)
                     sheet_name == CtxGet(ctx, "sheet_name", type_config.sheet_name)
                 IN IF execl_path = "" \/ sheet_name = "" THEN Null
                    ELSE IF rec.sheet = Raised THEN Null
                    ELSE IntentResult("excel_interruption_analysis", ROne, rec.name, EmptyDict, EmptyDict,
                                      [execl_path |-> execl_path, sheet_name |-> sheet_name,
                                       duration_threshold |-> CtxGet(ctx, "duration_threshold",
                                                                     rec.default_duration_threshold),
                                       ignore_no_interruption |-> CtxGet(ctx, "ignore_no_interruption",
                                                                         rec.default_ignore_no_interruption),
                                       excel_type |-> excel_type,
                                       result_count |-> Len(rec.sheet.data),
                                       data |-> rec.sheet.data])

\* XwCustomMatcher.parse reading the sheet before it validates the path and
\* the sheet name.
XwReads_Unvalidated(rec, ctx) ==
    /\ CtxGet(ctx, "trigger_excel", FALSE)
    /\ CtxGet(ctx, "excel_type", rec.default_excel_type) \in DOMAIN rec.excel_types_config

\* XwCustomMatcher.parse reaches the call of _parse_sheet_data.
XwReads(rec, ctx) ==
    /\ CtxGet(ctx, "trigger_excel", FALSE)
    /\ LET excel_type == CtxGet(ctx, "excel_type", rec.default_excel_type)
       IN /\ excel_type \in DOMAIN rec.excel_types_config
          /\ LET type_config == rec.excel_types_config[excel_type]
             IN /\ CtxGet(ctx, "execl_path", type_config.excel_path) # ""
                /\ CtxGet(ctx, "sheet_name", type_config.sheet_name) # ""

\* The number of calls of _parse_sheet_data the parse calls of recs make.
RECURSIVE SheetReads(_, _)
SheetReads(recs, ctx) ==
    IF recs = <<>> THEN 0
    ELSE (IF Head(recs).kind = "xw" /\ XwReads(Head(recs), ctx) THEN 1 ELSE 0) + SheetReads(Tail(recs), ctx)

\* recognizer.parse(text, context): an IntentResult, Null or Raised.
Parse(rec, cp, kc, txt, ctx) ==
    CASE rec.kind = "regex" -> RegexParse(cp, txt)
      [] rec.kind = "keyword" -> KeywordParse(kc, txt)
      [] rec.kind = "fsm" -> FsmParse(txt, ctx)
      [] rec.kind = "xw" -> XwParse(rec, ctx)
      [] OTHER -> IF rec.outcome = "raise" THEN Raised
                  ELSE IF rec.outcome = "none" THEN Null
                  ELSE IntentResult("extra_intent", rec.confidence, rec.name, EmptyDict, EmptyDict, EmptyDict)

\* BaseTextProcessor.preprocess of the configured processor.
RunTextProcessor(proc, txt) == IF proc = "raise" THEN Raised ELSE [text |-> LowerText(txt)]

\* RuleEngine._preprocess
PreprocessText(proc, txt) ==
    IF proc # None
    THEN (IF RunTextProcessor(proc, txt) = Raised THEN txt ELSE RunTextProcessor(proc, txt).text)
    ELSE Strip(txt)

\* ThreadPoolExecutor: the tasks are taken in submission order, each by the
\* worker that is free first.  The finish time of each task.
RECURSIVE PoolSchedule(_, _)
PoolSchedule(durs, free) ==
    IF durs = <<>> THEN <<>>
    ELSE LET w == CHOOSE k \in 1..Len(free) :
                      /\ \A j \in 1..Len(free) : free[k] <= free[j]
                      /\ \A j \in 1..(k - 1) : free[j] > free[k]
             fin == free[w] + Head(durs)
         IN <<fin>> \o PoolSchedule(Tail(durs), [free EXCEPT ![w] = fin])

\* The dict comprehension of _run_recognizers: every parse is submitted at
\* time t to a fresh pool of MaxWorkers workers.
SubmitAll(recs, cp, kc, txt, ctx, t) ==
    LET fin == PoolSchedule([k \in 1..Len(recs) |-> recs[k].dur], [w \in 1..MaxWorkers |-> t])
    IN [k \in 1..Len(recs) |-> [finish |-> fin[k], outcome |-> Parse(recs[k], cp, kc, txt, ctx)]]

\* One iteration of the for loop of _run_recognizers on the future fut of
\* index k: future.result(timeout=...) counts its timeout from the call.
WaitStep(st, fut, k) ==
    LET deadline == st.now + TimeoutPerRecognizer
    IN IF fut.finish > deadline
       THEN [now |-> deadline, results |-> st.results, joined |-> st.joined]
       ELSE IF fut.outcome = Raised \/ fut.outcome = Null
       THEN [now |-> Max2(st.now, fut.finish), results |-> st.results, joined |-> st.joined]
       ELSE [now |-> Max2(st.now, fut.finish), results |-> Append(st.results, fut.outcome),
             joined |-> st.joined \cup {k}]

\* The whole for loop, from the future of index k on.
RECURSIVE WaitAll(_, _, _)
WaitAll(futs, k, st) ==
    IF k > Len(futs) THEN st ELSE WaitAll(futs, k + 1, WaitStep(st, futs[k], k))

\* ThreadPoolExecutor.__exit__: shutdown(wait=True) returns when every
\* submitted task has finished.
ShutdownTime(futs, t) ==
    IF futs = <<>> THEN t
    ELSE Max2(t, CHOOSE m \in {futs[k].finish : k \in 1..Len(futs)} :
                     \A k \in 1..Len(futs) : futs[k].finish <= m)

\* RuleEngine._run_recognizers as a whole: its results and the time it returns.
RunRecognizers(recs, cp, kc, txt, ctx, t) ==
    LET futs == SubmitAll(recs, cp, kc, txt, ctx, t)
        st == WaitAll(futs, 1, [now |-> t, results |-> <<>>, joined |-> {}])
    IN [results |-> st.results, loop_end |-> st.now, returned |-> ShutdownTime(futs, st.now)]

\* _fill_slots taking the last registered filler of the name.
SelectFiller_Last(fillers, ctx) ==
    LET named == SelectSeq(fillers, LAMBDA f : f.name = ctx.slot_filler)
    IN IF ctx.slot_filler # None /\ ctx.slot_filler # "" /\ named # <<>> THEN named[Len(named)] ELSE fillers[1]

\* RuleEngine._fill_slots: the filler selected by context["slot_filler"].
SelectFiller(fillers, ctx) ==
    LET named == SelectSeq(fillers, LAMBDA f : f.name = ctx.slot_filler)
    IN IF ctx.slot_filler # None /\ ctx.slot_filler # "" /\ named # <<>> THEN Head(named) ELSE fillers[1]

DefaultSlotFiller == [name |-> "default_slot_filler", kind |-> "default"]
\* XwCustomSlotFiller.__init__
XwCustomSlotFiller == [name |-> "xw_slot_filler", kind |-> "xw"]
\* A BaseSlotFiller registered as it is: its fill_slots raises NotImplementedError.
BaseSlotFiller(name) == [name |-> name, kind |-> "base"]

----------------------------------------------------------------------------
(* The steps of process().                                                  *)

\* preprocessed = self._preprocess(text, context)
Preprocess ==
    /\ pc = "start"
    /\ preprocessed' = PreprocessText(text_processor, text)
    /\ pc' = "submit"
    /\ UNCHANGED <<engine, request, now, futures, i, results, joined, loop_end, fused, slots, final_result, store, anomaly, executors, sheet_reads, selected_filler, llm_calls>>

\* _run_recognizers: the pool is created and every parse is submitted.
Submit ==
    /\ pc = "submit"
    /\ futures' = SubmitAll(recognizers, compiled_patterns, keywords_conf, preprocessed, context, now)
    /\ i' = 1
    /\ sheet_reads' = sheet_reads + SheetReads(recognizers, context)
    /\ pc' = "wait"
    /\ UNCHANGED <<engine, request, now, preprocessed, results, joined, loop_end, fused, slots, final_result, store, anomaly, executors, selected_filler, llm_calls>>

\* _run_recognizers: one iteration of the for loop over the futures.
WaitFuture ==
    /\ pc = "wait"
    /\ i <= Len(futures)
    /\ LET st == WaitStep([now |-> now, results |-> results, joined |-> joined], futures[i], i)
       IN /\ now' = st.now
          /\ results' = st.results
          /\ joined' = st.joined
    /\ i' = i + 1
    /\ UNCHANGED <<engine, request, pc, preprocessed, futures, loop_end, fused, slots, final_result, store, anomaly, executors, sheet_reads, selected_filler, llm_calls>>

\* _run_recognizers: the with block is left after the loop.
ExitPool ==
    /\ pc = "wait"
    /\ i > Len(futures)
    /\ loop_end' = now
    /\ now' = ShutdownTime(futures, now)
    /\ pc' = "fuse"
    /\ UNCHANGED <<engine, request, preprocessed, futures, i, results, joined, fused, slots, final_result, store, anomaly, executors, sheet_reads, selected_filler, llm_calls>>

\* Fusion of the results collected so far, without waiting for the end of
\* the for loop over the futures.
Fuse_Early ==
    /\ pc = "wait"
    /\ fused' = FuseResults(config, results)
    /\ pc' = "fill"
    /\ UNCHANGED <<engine, request, now, preprocessed, futures, i, results, joined, loop_end, slots, final_result, store, anomaly, executors, sheet_reads, selected_filler, llm_calls>>

\* fused = self._fuse_results(raw_results)
Fuse ==
    /\ pc = "fuse"
    /\ fused' = FuseResults(config, results)
    /\ pc' = "fill"
    /\ UNCHANGED <<engine, request, now, preprocessed, futures, i, results, joined, loop_end, slots, final_result, store, anomaly, executors, sheet_reads, selected_filler, llm_calls>>

\* _fill_slots with the default filler selected: SlotFiller.fill_slots up to
\* the call of the LLM collaborator.
FillSlots ==
    /\ pc = "fill"
    /\ SelectFiller(slot_fillers, context).kind = "default"
    /\ selected_filler' = SelectFiller(slot_fillers, context)
    /\ LET slots_def == GetIntentSlots(config, fused.intent)
           filled == RegexPass(slots_def, slot_patterns, fused.slots, text)
       IN IF slots_def = <<>>
          THEN /\ final_result' = fused
               /\ pc' = "done"
               /\ UNCHANGED <<slots, llm_calls>>
          ELSE IF llm_filler # Null /\ MissingRequired(slots_def, filled) # <<>>
          THEN /\ slots' = filled
               /\ llm_calls' = llm_calls + 1
               /\ pc' = "llm"
               /\ UNCHANGED final_result
          ELSE /\ slots' = filled
               /\ final_result' = [fused EXCEPT !.slots = filled]
               /\ pc' = "done"
               /\ UNCHANGED llm_calls
    /\ UNCHANGED <<engine, request, now, preprocessed, futures, i, results, joined, loop_end, fused, store, anomaly, executors, sheet_reads>>

\* SlotFiller._fill_slots_via_llm and the return of fill_slots; the with
\* block of the single-task executor is left when the call has finished.
FillSlotsLLM ==
    /\ pc = "llm"
    /\ slots' = FillSlotsViaLLM(llm_filler, slots)
    /\ final_result' = [fused EXCEPT !.slots = slots']
    /\ now' = now + llm_filler.dur
    /\ pc' = "done"
    /\ UNCHANGED <<engine, request, preprocessed, futures, i, results, joined, loop_end, fused, store, anomaly, executors, sheet_reads, selected_filler, llm_calls>>

\* _fill_slots with a filler selected whose fill_slots raises: nothing
\* catches the exception on the way out of process().
FillerRaises ==
    /\ pc = "fill"
    /\ SelectFiller(slot_fillers, context).kind = "base"
    /\ selected_filler' = SelectFiller(slot_fillers, context)
    /\ pc' = "raised"
    /\ UNCHANGED <<engine, request, now, preprocessed, futures, i, results, joined, loop_end, fused, slots, final_result, store, anomaly, executors, sheet_reads, llm_calls>>

\* intent_result.metadata.get('data', [])
DataList(intent_result) == CtxGet(intent_result.metadata, "data", <<>>)

\* _fill_slots with the anomaly filler selected: XwCustomSlotFiller.fill_slots
\* up to the while loop of _parse_anomalies.
XwFillSlots ==
    /\ pc = "fill"
    /\ SelectFiller(slot_fillers, context).kind = "xw"
    /\ selected_filler' = SelectFiller(slot_fillers, context)
    /\ IF DataList(fused) = <<>>
       THEN /\ final_result' = fused
            /\ pc' = "done"
            /\ UNCHANGED anomaly
       ELSE /\ xw_i' = 1
            /\ xw_iters' = 0
            /\ anomaly_result' = EmptyAnomalies
            /\ pc' = "xw"
            /\ UNCHANGED final_result
    /\ UNCHANGED <<engine, request, now, preprocessed, futures, i, results, joined, loop_end, fused, slots, store, executors, sheet_reads, llm_calls>>

\* record = data_list[i], and its first item exists.
XwRecord == DataList(fused)[xw_i]
XwScanning == pc = "xw" /\ xw_i <= Len(DataList(fused)) /\ HasItem(XwRecord)

\* One iteration on a record without satellites: satellites is None, is an
\* empty dict or is no dict.
XwSkip ==
    /\ XwScanning
    /\ XwRecord.satellites = Null \/ SatelliteCount(XwRecord.satellites) = 0
    /\ xw_i' = xw_i + 1
    /\ xw_iters' = xw_iters + 1
    /\ UNCHANGED <<engine, request, pc, now, preprocessed, futures, i, results, joined, loop_end, fused, slots, final_result, selected_filler, llm_calls, anomaly_result, store, executors, sheet_reads>>

\* One iteration on the first record of a run of one satellite.
XwMultiPass ==
    /\ XwScanning
    /\ XwRecord.satellites # Null /\ SatelliteCount(XwRecord.satellites) = 1
    /\ LET data_list == DataList(fused)
           satellite_name == data_list[xw_i].satellites.keys[1]
           end_idx == FindSameSatelliteEnd(data_list, xw_i, satellite_name)
       IN /\ ClassifySingleSatellite(data_list, xw_i, satellite_name) = "multi_pass_long_time"
          /\ anomaly_result' = AppendTo(anomaly_result, multi_pass_key,
                                        ExtractMultiPassInfo(data_list, xw_i, end_idx, satellite_name))
          /\ xw_i' = end_idx + 1
          /\ xw_iters' = xw_iters + 1
    /\ UNCHANGED <<engine, request, pc, now, preprocessed, futures, i, results, joined, loop_end, fused, slots, final_result, selected_filler, llm_calls, store, executors, sheet_reads>>

\* One iteration on a record of one satellite that starts no run.
XwSinglePass ==
    /\ XwScanning
    /\ XwRecord.satellites # Null /\ SatelliteCount(XwRecord.satellites) = 1
    /\ LET data_list == DataList(fused)
           satellite_name == data_list[xw_i].satellites.keys[1]
       IN /\ ClassifySingleSatellite(data_list, xw_i, satellite_name) # "multi_pass_long_time"
          /\ anomaly_result' = AppendTo(anomaly_result, single_pass_key,
                                        ExtractSinglePassInfo(data_list[xw_i], satellite_name))
          /\ xw_i' = xw_i + 1
          /\ xw_iters' = xw_iters + 1
    /\ UNCHANGED <<engine, request, pc, now, preprocessed, futures, i, results, joined, loop_end, fused, slots, final_result, selected_filler, llm_calls, store, executors, sheet_reads>>

\* One iteration on a record of several satellites.
XwMultiSat ==
    /\ XwScanning
    /\ XwRecord.satellites # Null /\ SatelliteCount(XwRecord.satellites) > 1
    /\ anomaly_result' = AppendTo(anomaly_result, multi_sat_key, MultiSatInfo(DataList(fused)[xw_i]))
    /\ xw_i' = xw_i + 1
    /\ xw_iters' = xw_iters + 1
    /\ UNCHANGED <<engine, request, pc, now, preprocessed, futures, i, results, joined, loop_end, fused, slots, final_result, selected_filler, llm_calls, store, executors, sheet_reads>>

\* The number of iterations of the while loop that are followed on one
\* call of _parse_anomalies.
MaxIterations == 6

\* One iteration on a record that is an empty mapping: the body of
\* "for key, value in record.items()" is not run, and nothing else in the
\* while loop changes i.
XwEmptyRecord ==
    /\ pc = "xw"
    /\ xw_i <= Len(DataList(fused))
    /\ ~HasItem(XwRecord)
    /\ xw_iters < MaxIterations
    /\ xw_iters' = xw_iters + 1
    /\ UNCHANGED <<engine, request, pc, now, preprocessed, futures, i, results, joined, loop_end, fused, slots, final_result, selected_filler, llm_calls, xw_i, anomaly_result, store, executors, sheet_reads>>

\* The while loop is over: slots['anomalies'] = anomaly_result and the
\* result is returned.
XwReturn ==
    /\ pc = "xw"
    /\ xw_i > Len(DataList(fused))
    /\ final_result' = [fused EXCEPT !.slots = ("anomalies" :> anomaly_result) @@ fused.slots]
    /\ pc' = "done"
    /\ UNCHANGED <<engine, request, now, preprocessed, futures, i, results, joined, loop_end, fused, slots, selected_filler, llm_calls, anomaly, store, executors, sheet_reads>>

Next ==
    \/ Preprocess
    \/ Submit
    \/ WaitFuture
    \/ ExitPool
    \/ Fuse
    \/ FillSlots
    \/ FillSlotsLLM
    \/ FillerRaises

----------------------------------------------------------------------------
(* The inputs.                                                              *)

T_ok == <<"o", "k">>
T_padded == <<" ", " ", " ", " ", "o", "k", " ", " ", " ", " ", " ">>
T_nine == <<"o", "k", "o", "k", "o", "k", "o", "k", "o">>
T_ten == <<"o", "k", "o", "k", "o", "k", "o", "k", "o", "k">>
T_empty == <<>>
T_fly == <<"f", "l", "y">>
T_fly_to == <<"F", "l", "y", " ", "T", "o", " ", "d", "1">>
T_fly_long == <<"f", "l", "y", " ", "t", "o", " ", "d", "1", " ", "o", "k">>
T_s == <<"s">>
T_sq == <<"s", "q">>
T_cx == <<" ", "c", "x">>
T_d1 == <<"d", "1">>
T_tk_no == <<"t", "k", " ", "n", "o">>

Texts == {T_ok, T_padded, T_nine, T_ten, T_empty, T_fly, T_fly_to, T_fly_long, T_s, T_sq, T_cx, T_d1, T_tk_no}

Contexts(last_intents, filler_names) ==
    {[last_intent |-> l, slot_filler |-> f] : l \in last_intents, f \in filler_names}

\* The running times of a parse call: 0, 2, ..., 2 * MaxDur ticks.
MaxDur == 2
Durs == {2 * d : d \in 0..MaxDur}
\* The number of extra recognizers registered after the built-in ones: of
\* those whose parse takes time, and of those that answer at once.
MaxExtra == 2
MaxPromptExtra == 1

ExtraRecognizers(names, outcomes, confidences, durs) ==
    {ExtraRecognizer(IF o = "result" THEN nm ELSE "extra", o, IF o = "result" THEN c ELSE RZero, d) :
        nm \in names, o \in outcomes, c \in confidences, d \in durs}

SeqsUpTo(S, n) == UNION {[1..m -> S] : m \in 0..n}

\* Extra recognizers named after their position in the registration order.
ExtraNames == <<"extra1", "extra2", "extra3", "extra4", "extra5", "extra6">>
Numbered(xs) == [k \in 1..Len(xs) |-> [xs[k] EXCEPT !.name = ExtraNames[k]]]

LlmFillers(outcomes, values, durs) ==
    {[outcome |-> o, value |-> IF o = "dict" THEN v ELSE EmptyDict, dur |-> d] :
        o \in outcomes, v \in values, d \in durs}

LlmValue == <<"l", "l", "m">>

\* The state when process() is entered on an engine built by __init__ from
\* one of the rule sets configs.
InitEngine(configs, procs, recs, fillers, llms, texts, contexts) ==
    /\ config \in configs
    /\ compiled_patterns = CompilePatterns(config.regex_patterns)
    /\ keywords_conf = config.keywords
    /\ slot_patterns = CompileSlotPatterns(config.regex_patterns)
    /\ text_processor \in procs
    /\ recognizers \in recs
    /\ slot_fillers \in fillers
    /\ llm_filler \in llms
    /\ text \in texts
    /\ context \in contexts
    /\ pc = "start"
    /\ now = 0
    /\ preprocessed = <<>>
    /\ futures = <<>>
    /\ i = 0
    /\ results = <<>>
    /\ joined = {}
    /\ loop_end = 0
    /\ fused = Null
    /\ slots = EmptyDict
    /\ final_result = Null
    /\ selected_filler = Null
    /\ llm_calls = 0
    /\ xw_i = 0
    /\ anomaly_result = EmptyDict
    /\ disk = [intents |-> File(config.intents), keywords |-> File(config.keywords),
               regex_patterns |-> File(config.regex_patterns)]
    /\ load_pc = "idle"
    /\ generations = <<disk>>
    /\ extra_disk = MissingFile
    /\ blocks = EmptyDict
    /\ executors = <<>>
    /\ sheet_reads = 0
    /\ xw_iters = 0

\* The same for the rule files of ConfigManager(unknown_intent).
InitWith(unknowns, procs, recs, fillers, llms, texts, contexts) ==
    InitEngine({ConfigManager(u) : u \in unknowns}, procs, recs, fillers, llms, texts, contexts)

LlmBoth == [destination |-> LlmValue, date |-> LlmValue, extra |-> LlmValue]

\* Every text, context and processor, with recognizers that answer at once;
\* an extra recognizer may be a second pattern recognizer (its results are
\* tagged "regex").
Init ==
    InitWith({None, "no_intent"}, {None, "lower", "raise"},
             {BuiltinRecognizers(0, 0, 0) \o x :
                 x \in SeqsUpTo(ExtraRecognizers({"extra", "regex"}, {"result", "none", "raise"},
                                                 {Rat(1, 1), Rat(3, 4)}, {0}), MaxPromptExtra)},
             {<<DefaultSlotFiller, BaseSlotFiller("base_filler")>>},
             {Null} \cup LlmFillers({"dict"}, {LlmBoth}, {0, LlmTimeout + 2}),
             Texts,
             Contexts({None, "", "book_flight"}, {None, "base_filler", "missing_filler"}))

Spec == Init /\ [][Next]_vars

\* Parse calls that take time: every running time of Durs for the
\* built-in recognizers and for up to MaxExtra extra recognizers; and a few
\* calls that reach every kind of slot filling.
InitTiming ==
    \/ InitWith({None}, {None},
                {BuiltinRecognizers(a, b, c) \o Numbered(x) :
                    a \in Durs, b \in Durs, c \in Durs,
                    x \in SeqsUpTo(ExtraRecognizers({"extra"}, {"result", "raise"}, {Rat(1, 2)}, Durs), MaxExtra)},
                {<<DefaultSlotFiller>>}, {Null}, {T_s, T_fly_to},
                Contexts({None, "book_flight"}, {None}))
    \/ InitWith({None}, {None}, {BuiltinRecognizers(0, 0, 0)},
                {<<DefaultSlotFiller, BaseSlotFiller("base_filler")>>},
                LlmFillers({"dict"}, {LlmBoth}, {0}), {T_s, T_d1},
                Contexts({"book_flight"}, {None, "base_filler"}))

SpecTiming == InitTiming /\ [][Next]_vars

\* The batches of anomaly records: up to MaxBatch records, each naming no
\* satellite (None or an empty dict), one of two satellites, or both; the
\* record of position k lasts from 2k + 7 to 2k + 8.
MaxBatch == 5
SatelliteValues ==
    {Null, Satellites(<<>>), Satellites(<<"A0015">>), Satellites(<<"B0002">>), Satellites(<<"A0015", "B0002">>)}
Batch(sats) ==
    [k \in 1..Len(sats) |->
        [segment |-> k, start_time |-> 2 * k + 7, end_time |-> 2 * k + 8, satellites |-> sats[k]]]
Batches == {Batch(sats) : sats \in SeqsUpTo(SatelliteValues, MaxBatch)}

XwExcelTypes == [merged |-> [excel_path |-> "merged.xlsx", sheet_name |-> "Sheet1"]]

\* process() on an engine with the XwCustomMatcher and the XwCustomSlotFiller
\* registered, for a context that triggers the recognizer and names the
\* filler, and every batch the sheet may hold.
InitXw ==
    /\ InitWith({None}, {None},
                {BuiltinRecognizers(0, 0, 0) \o <<XwCustomMatcher(XwExcelTypes, Sheet(b))>> : b \in Batches},
                {<<DefaultSlotFiller, XwCustomSlotFiller>>}, {Null}, {T_ok},
                {[last_intent |-> None, slot_filler |-> "xw_slot_filler", trigger_excel |-> TRUE]})

NextXw ==
    \/ Preprocess
    \/ Submit
    \/ WaitFuture
    \/ ExitPool
    \/ Fuse
    \/ XwFillSlots
    \/ XwSkip
    \/ XwMultiPass
    \/ XwSinglePass
    \/ XwMultiSat
    \/ XwReturn

SpecXw == InitXw /\ [][NextXw]_vars

----------------------------------------------------------------------------
(* The on-demand recognizer under every kind of context and configuration.  *)

\* The dicts that have no key, or the key with one of the values.
Optional(key, values) == {EmptyDict} \cup {key :> v : v \in values}

\* The contexts of the on-demand recognizer: each key absent or present,
\* a path and a sheet name empty or not, a type the configuration has or not.
TriggerContexts ==
    {[last_intent |-> None, slot_filler |-> f] @@ t @@ e @@ p @@ n :
        f \in {None, "xw_slot_filler"},
        t \in Optional("trigger_excel", {FALSE, TRUE}),
        e \in Optional("excel_type", {"merged", "standardized"}),
        p \in Optional("execl_path", {"", "ctx.xlsx"}),
        n \in Optional("sheet_name", {"", "Sheet2"})}

\* excel_analyzer.excel_types: none, a type without path and sheet name, a
\* type with both.
TriggerExcelTypes ==
    {EmptyDict, [merged |-> [excel_path |-> "", sheet_name |-> ""]], XwExcelTypes}

\* What the sheet holds: it cannot be read, no record, one record, a run
\* followed by a record without satellite and one of two satellites.
TriggerSheets ==
    {Raised, Sheet(<<>>), Sheet(Batch(<<Satellites(<<"A0015">>)>>)),
     Sheet(Batch(<<Satellites(<<"A0015">>), Satellites(<<"A0015">>), Null, Satellites(<<"A0015", "B0002">>)>>))}

\* The running times of the parse call of the on-demand recognizer: at
\* once, and longer than timeout_per_recognizer.
TriggerDurs == {0, TimeoutPerRecognizer + 1}

InitTrigger ==
    InitWith({None}, {None},
             {BuiltinRecognizers(0, 0, 0) \o <<[XwCustomMatcher(c, sh) EXCEPT !.dur = d]>> :
                 c \in TriggerExcelTypes, sh \in TriggerSheets, d \in TriggerDurs},
             {<<DefaultSlotFiller, XwCustomSlotFiller>>}, {Null}, {T_ok, T_fly, T_s},
             TriggerContexts)

NextTrigger ==
    \/ Preprocess
    \/ Submit
    \/ WaitFuture
    \/ ExitPool
    \/ Fuse
    \/ FillSlots
    \/ XwFillSlots
    \/ XwSkip
    \/ XwMultiPass
    \/ XwSinglePass
    \/ XwMultiSat
    \/ XwReturn

SpecTrigger == InitTrigger /\ [][NextTrigger]_vars

----------------------------------------------------------------------------
(* The anomaly classifier on batches with records of every shape.           *)

\* The empty mapping {} as a record of the batch.
EmptyRecord == [empty |-> TRUE]

\* The shapes of a record: the empty mapping, or satellites None, a dict of
\* one or two satellites, or a value that is no dict.
MaxScan == 3
ScanShapes == {EmptyRecord, Null, Satellites(<<"A0015">>), Satellites(<<"A0015", "B0002">>), NonDict}
ScanBatch(shapes) ==
    [k \in 1..Len(shapes) |->
        IF shapes[k] = EmptyRecord THEN EmptyRecord
        ELSE [segment |-> k, start_time |-> 2 * k + 7, end_time |-> 2 * k + 8, satellites |-> shapes[k]]]
ScanBatches == {ScanBatch(shapes) : shapes \in SeqsUpTo(ScanShapes, MaxScan)}

InitScan ==
    InitWith({None}, {None},
             {BuiltinRecognizers(0, 0, 0) \o <<XwCustomMatcher(XwExcelTypes, Sheet(b))>> : b \in ScanBatches},
             {<<DefaultSlotFiller, XwCustomSlotFiller>>}, {Null}, {T_ok},
             {[last_intent |-> None, slot_filler |-> "xw_slot_filler", trigger_excel |-> TRUE]})

NextScan ==
    \/ Preprocess
    \/ Submit
    \/ WaitFuture
    \/ ExitPool
    \/ Fuse
    \/ XwFillSlots
    \/ XwSkip
    \/ XwMultiPass
    \/ XwSinglePass
    \/ XwMultiSat
    \/ XwEmptyRecord
    \/ XwReturn

SpecScan == InitScan /\ [][NextScan]_vars

----------------------------------------------------------------------------
(* Slot filling with every kind of LLM collaborator and of context.         *)

\* The running times of fill_missing_slots: at once, well within
\* llm_timeout, and longer than llm_timeout.
LlmDurs == {0, 4, LlmTimeout + 2}

\* process() on an engine whose default filler has no collaborator or one
\* that returns a mapping, returns something else or raises, with the
\* anomaly filler and two fillers without fill_slots registered after it,
\* one of them under the name of the anomaly filler.
InitFill ==
    InitWith({None}, {None}, {BuiltinRecognizers(0, 0, 0)},
             {<<DefaultSlotFiller, XwCustomSlotFiller, BaseSlotFiller("xw_slot_filler"),
                BaseSlotFiller("base_filler")>>},
             {Null} \cup LlmFillers({"dict", "nondict", "raise"}, {LlmBoth, [date |-> LlmValue]}, LlmDurs),
             {T_ok, T_fly, T_fly_to, T_s, T_cx, T_d1},
             Contexts({None}, {None, "", "default_slot_filler", "xw_slot_filler", "base_filler",
                               "missing_filler"}))

NextFill ==
    \/ Preprocess
    \/ Submit
    \/ WaitFuture
    \/ ExitPool
    \/ Fuse
    \/ FillSlots
    \/ FillSlotsLLM
    \/ FillerRaises
    \/ XwFillSlots

SpecFill == InitFill /\ [][NextFill]_vars

----------------------------------------------------------------------------
(* Concurrent calls of process() on one engine, each seen through the pool  *)
(* of its _run_recognizers: executors[c] is the ThreadPoolExecutor of the   *)
(* c-th call that entered the with block, with the state of the parse call  *)
(* of each recognizer.                                                      *)

\* The number of concurrent calls of process().
MaxCalls == 2

\* The parse calls of executor e that a worker is running.
Running(e) == {k \in 1..Len(e.tasks) : e.tasks[k] = "running"}

\* A call enters the with block: ThreadPoolExecutor(max_workers) is created
\* and every recognizer.parse is submitted to it.
EnterPool ==
    /\ Len(executors) < MaxCalls
    /\ executors' = Append(executors, [open |-> TRUE, tasks |-> [k \in 1..Len(recognizers) |-> "queued"]])
    /\ UNCHANGED <<engine, request, pc, call, anomaly, store>>

\* A worker of the pool of call c takes the oldest queued parse call; the
\* pool has at most max_workers workers.
StartTask(c) ==
    /\ executors[c].open
    /\ Cardinality(Running(executors[c])) < MaxWorkers
    /\ \E k \in 1..Len(executors[c].tasks) :
          /\ executors[c].tasks[k] = "queued"
          /\ \A j \in 1..(k - 1) : executors[c].tasks[j] # "queued"
          /\ executors' = [executors EXCEPT ![c].tasks[k] = "running"]
    /\ UNCHANGED <<engine, request, pc, call, anomaly, store>>

\* A parse call returns or raises.
FinishTask(c) ==
    /\ \E k \in Running(executors[c]) : executors' = [executors EXCEPT ![c].tasks[k] = "finished"]
    /\ UNCHANGED <<engine, request, pc, call, anomaly, store>>

\* The call leaves the with block: shutdown(wait=True) has joined every
\* parse call, and the pool is gone.
LeavePool(c) ==
    /\ executors[c].open
    /\ \A k \in 1..Len(executors[c].tasks) : executors[c].tasks[k] = "finished"
    /\ executors' = [executors EXCEPT ![c].open = FALSE]
    /\ UNCHANGED <<engine, request, pc, call, anomaly, store>>

\* An engine with the built-in recognizers, alone or followed by two extra
\* recognizers (more recognizers than workers).
InitPool ==
    InitWith({None}, {None},
             {BuiltinRecognizers(0, 0, 0),
              BuiltinRecognizers(0, 0, 0) \o Numbered(<<ExtraRecognizer("extra", "none", RZero, 0),
                                                          ExtraRecognizer("extra", "none", RZero, 0)>>)},
             {<<DefaultSlotFiller>>}, {Null}, {T_ok}, Contexts({None}, {None}))

NextPool ==
    \/ EnterPool
    \/ \E c \in 1..Len(executors) : StartTask(c)
    \/ \E c \in 1..Len(executors) : FinishTask(c)
    \/ \E c \in 1..Len(executors) : LeavePool(c)

SpecPool == InitPool /\ [][NextPool]_vars

----------------------------------------------------------------------------
(* The rule store: construction of the engine from the rule files, and      *)
(* ConfigManager.reload.  _load_all assigns intents, keywords and           *)
(* regex_patterns one after the other; its loop over *.json afterwards      *)
(* fills _config_cache and sets only attributes the store does not have     *)
(* yet, so it leaves the three rule sets as they are.                       *)

\* The value of _load_json for a file without content: {}.
EmptyIntents == [intents |-> <<>>, unknown_intent |-> None]
EmptyKeywords == <<>>
EmptyRegexPatterns == [intents |-> <<>>, slots |-> <<>>]

\* ConfigManager.__init__ before _load_all.
EmptyConfig == [intents |-> EmptyIntents, keywords |-> EmptyKeywords, regex_patterns |-> EmptyRegexPatterns]

\* ConfigManager._load_json: json.load raises on a file that is not
\* well-formed, and a missing file gives {}.
LoadRaises(file) == file.state = "malformed"
LoadJson(file, empty) == IF file.state = "ok" THEN file.content ELSE empty

\* re.compile(pattern, flags) raises re.error on a pattern with an
\* unbalanced parenthesis.
Compiles(pattern) == \A k \in 1..Len(pattern) : pattern[k] # "("
\* A compile loop over the rule lists of entries raises.
CompileRaises(entries) ==
    \E e \in 1..Len(entries) : \E k \in 1..Len(entries[e].patterns) :
        entries[e].patterns[k].pattern # <<>> /\ ~Compiles(entries[e].patterns[k].pattern)

\* The exception of _load_all leaves __init__ when the engine is being built.
AfterLoad(ok) == IF pc = "config" THEN (IF ok THEN "recognizers" ELSE "init_failed") ELSE pc

\* self.intents = self._load_json("intents.json")
LoadIntents ==
    /\ load_pc = "intents"
    /\ IF LoadRaises(disk.intents)
       THEN /\ load_pc' = "raised"
            /\ pc' = AfterLoad(FALSE)
            /\ UNCHANGED config
       ELSE /\ config' = [config EXCEPT !.intents = LoadJson(disk.intents, EmptyIntents)]
            /\ load_pc' = "keywords"
            /\ UNCHANGED pc
    /\ UNCHANGED <<compiled_patterns, keywords_conf, slot_patterns, text_processor, recognizers, slot_fillers,
                   llm_filler, request, call, anomaly, disk, generations, executors,
                   extra_disk, blocks>>

\* self.keywords = self._load_json("keywords.json")
LoadKeywords ==
    /\ load_pc = "keywords"
    /\ IF LoadRaises(disk.keywords)
       THEN /\ load_pc' = "raised"
            /\ pc' = AfterLoad(FALSE)
            /\ UNCHANGED config
       ELSE /\ config' = [config EXCEPT !.keywords = LoadJson(disk.keywords, EmptyKeywords)]
            /\ load_pc' = "regex_patterns"
            /\ UNCHANGED pc
    /\ UNCHANGED <<compiled_patterns, keywords_conf, slot_patterns, text_processor, recognizers, slot_fillers,
                   llm_filler, request, call, anomaly, disk, generations, executors,
                   extra_disk, blocks>>

\* self.regex_patterns = self._load_json("regex_patterns.json"); the loop
\* over *.json follows.
LoadRegexPatterns ==
    /\ load_pc = "regex_patterns"
    /\ IF LoadRaises(disk.regex_patterns)
       THEN /\ load_pc' = "raised"
            /\ pc' = AfterLoad(FALSE)
            /\ UNCHANGED config
       ELSE /\ config' = [config EXCEPT !.regex_patterns = LoadJson(disk.regex_patterns, EmptyRegexPatterns)]
            /\ load_pc' = "blocks"
            /\ UNCHANGED pc
    /\ UNCHANGED <<compiled_patterns, keywords_conf, slot_patterns, text_processor, recognizers, slot_fillers,
                   llm_filler, request, call, anomaly, disk, generations, executors,
                   extra_disk, blocks>>

\* The attributes the ConfigManager has when the loop over *.json starts:
\* those __init__ and the three typed loads have assigned, and those an
\* earlier run of the loop has set.
TypedAccessors == {"intents", "keywords", "regex_patterns"}
HasAttr(key) == key \in TypedAccessors \/ key \in DOMAIN blocks

\* for key, value in config_data.items():
\*     if not hasattr(self, key): setattr(self, key, value)
SetAttrs(config_data) ==
    [key \in DOMAIN blocks \cup {k \in DOMAIN config_data : ~HasAttr(k)} |->
        IF HasAttr(key) THEN blocks[key] ELSE config_data[key]]

\* The loop of _load_all over the *.json files of config_dir, for the file
\* besides the three typed ones, and the return of _load_all.  The three
\* typed files have been parsed just before, and their top-level keys that
\* the rule sets use are attributes already.
LoadBlocks ==
    /\ load_pc = "blocks"
    /\ IF LoadRaises(extra_disk)
       THEN /\ load_pc' = "raised"
            /\ pc' = AfterLoad(FALSE)
            /\ UNCHANGED blocks
       ELSE /\ blocks' = SetAttrs(LoadJson(extra_disk, EmptyDict))
            /\ load_pc' = "idle"
            /\ pc' = AfterLoad(TRUE)
    /\ UNCHANGED <<engine, request, call, anomaly, disk, generations, executors, extra_disk>>

\* RuleEngine.__init__: RegexMatcher(config), KeywordMatcher(config) and
\* FSMProcessor(config) are built; nothing catches the re.error of
\* _compile_patterns.
BuildRecognizers ==
    /\ pc = "recognizers"
    /\ IF CompileRaises(config.regex_patterns.intents)
       THEN /\ pc' = "init_failed"
            /\ UNCHANGED <<compiled_patterns, keywords_conf, recognizers>>
       ELSE /\ compiled_patterns' = CompilePatterns(config.regex_patterns)
            /\ keywords_conf' = config.keywords
            /\ recognizers' = BuiltinRecognizers(0, 0, 0)
            /\ pc' = "fillers"
    /\ UNCHANGED <<config, slot_patterns, text_processor, slot_fillers, llm_filler, request, call, anomaly,
                   store, executors>>

\* RuleEngine.__init__: SlotFiller(config) is built; nothing catches the
\* re.error of _compile_slot_patterns.
BuildSlotFillers ==
    /\ pc = "fillers"
    /\ IF CompileRaises(config.regex_patterns.slots)
       THEN /\ pc' = "init_failed"
            /\ UNCHANGED <<slot_patterns, slot_fillers>>
       ELSE /\ slot_patterns' = CompileSlotPatterns(config.regex_patterns)
            /\ slot_fillers' = <<DefaultSlotFiller>>
            /\ pc' = "start"
    /\ UNCHANGED <<config, compiled_patterns, keywords_conf, text_processor, recognizers, llm_filler, request,
                   call, anomaly, store, executors>>

\* The number of times the rule files are edited after construction.
MaxEdits == 1

\* A second version of each rule file: another sentinel name, another
\* weight for "status", other intent and slot patterns.
KeywordsFile2 ==
    << [intent |-> "book_flight", keywords |-> << <<"f", "l">>, <<"t", "k">> >>,
        must_keywords |-> <<>>, exclude_keywords |-> << <<"n", "o">> >>, weight |-> Rat(1, 1)],
       [intent |-> "status", keywords |-> << <<"s">>, <<"q">> >>,
        must_keywords |-> << <<"s">> >>, exclude_keywords |-> <<>>, weight |-> Rat(1, 1)] >>
RegexPatternsFile2 ==
    [intents |-> << [intent |-> "cancel",
                     patterns |-> << [pattern |-> <<"f", "l", "y">>, flags |-> "i", group |-> NoGroup] >>] >>,
     slots |-> << [slot |-> "date",
                   patterns |-> << [pattern |-> <<"1">>, flags |-> "", group |-> "date"] >>] >>]
\* regex_patterns.json with an intent pattern, or a slot pattern, that does
\* not compile.
RegexPatternsBadIntent ==
    [RegexPatternsFile EXCEPT !.intents = Append(@, [intent |-> "status",
                                                     patterns |-> << [pattern |-> <<"(", "s">>, flags |-> "",
                                                                      group |-> NoGroup] >>])]
RegexPatternsBadSlot ==
    [RegexPatternsFile EXCEPT !.slots = Append(@, [slot |-> "seat",
                                                   patterns |-> << [pattern |-> <<"(", "s">>, flags |-> "",
                                                                    group |-> "seat"] >>])]

Disk(intents, keywords, regex_patterns) ==
    [intents |-> intents, keywords |-> keywords, regex_patterns |-> regex_patterns]

\* The rule files the engine may be built from.
InitialDisks ==
    {Disk(a, b, c) : a \in {File(IntentsFile(None)), MissingFile, MalformedFile},
                     b \in {File(KeywordsFile), MissingFile, MalformedFile},
                     c \in {File(RegexPatternsFile), File(RegexPatternsBadIntent), File(RegexPatternsBadSlot),
                            MissingFile, MalformedFile}}

\* The rule files after an edit.
EditedDisks ==
    {Disk(File(IntentsFile(None)), File(KeywordsFile2), File(RegexPatternsFile)),
     Disk(File(IntentsFile(None)), File(KeywordsFile), File(RegexPatternsFile2)),
     Disk(File(IntentsFile("no_intent")), File(KeywordsFile2), File(RegexPatternsFile2)),
     Disk(File(IntentsFile("no_intent")), MalformedFile, File(RegexPatternsFile2)),
     Disk(File(IntentsFile(None)), File(KeywordsFile), File(RegexPatternsFile))}

\* The rule files are edited between two calls.
EditRules ==
    /\ pc = "start"
    /\ load_pc = "idle"
    /\ Len(generations) <= MaxEdits
    /\ \E d \in EditedDisks \ {disk} :
          /\ disk' = d
          /\ generations' = Append(generations, d)
    /\ UNCHANGED <<engine, request, pc, call, anomaly, load_pc, executors, extra_disk, blocks>>

\* engine.config.reload() is called between two calls of process().
Reload ==
    /\ pc = "start"
    /\ load_pc = "idle"
    /\ load_pc' = "intents"
    /\ UNCHANGED <<engine, request, pc, call, anomaly, disk, generations, executors, extra_disk, blocks>>

\* RuleEngine.__init__ has called ConfigManager(config_dir), which is about
\* to run _load_all on the rule files of the directory.
InitStoreWith(disks, extras) ==
    /\ disk \in disks
    /\ generations = <<disk>>
    /\ extra_disk \in extras
    /\ blocks = EmptyDict
    /\ load_pc = "intents"
    /\ pc = "config"
    /\ config = EmptyConfig
    /\ compiled_patterns = <<>>
    /\ keywords_conf = <<>>
    /\ slot_patterns = <<>>
    /\ text_processor = None
    /\ recognizers = <<>>
    /\ slot_fillers = <<>>
    /\ llm_filler = Null
    /\ text \in {T_s, T_fly_to}
    /\ context = [last_intent |-> None, slot_filler |-> None]
    /\ now = 0
    /\ preprocessed = <<>>
    /\ futures = <<>>
    /\ i = 0
    /\ results = <<>>
    /\ joined = {}
    /\ loop_end = 0
    /\ fused = Null
    /\ slots = EmptyDict
    /\ final_result = Null
    /\ selected_filler = Null
    /\ llm_calls = 0
    /\ xw_i = 0
    /\ anomaly_result = EmptyDict
    /\ executors = <<>>
    /\ sheet_reads = 0
    /\ xw_iters = 0

InitStore == InitStoreWith(InitialDisks, {MissingFile})

NextStore ==
    \/ LoadIntents
    \/ LoadKeywords
    \/ LoadRegexPatterns
    \/ LoadBlocks
    \/ BuildRecognizers
    \/ BuildSlotFillers
    \/ EditRules
    \/ Reload
    \/ Preprocess
    \/ Submit
    \/ WaitFuture
    \/ ExitPool
    \/ Fuse
    \/ FillSlots

SpecStore == InitStore /\ [][NextStore]_vars

\* A rule file besides the three typed ones, such as xw_excel.json: named
\* configuration blocks, in two versions.  The second version has a
\* top-level key named like a typed accessor, and a block more.
Blocks1 == ("excel_analyzer" :> "v1")
Blocks2 == ("excel_analyzer" :> "v2") @@ ("keywords" :> "v2") @@ ("segments" :> "v2")
ExtraFiles == {MissingFile, MalformedFile, File(Blocks1), File(Blocks2)}

\* The additional rule file is edited, created or removed between two calls.
EditExtra ==
    /\ pc = "start"
    /\ load_pc = "idle"
    /\ extra_disk' \in ExtraFiles \ {extra_disk}
    /\ UNCHANGED <<engine, request, pc, call, anomaly, disk, load_pc, generations, executors, blocks>>

InitBlocks ==
    InitStoreWith({Disk(File(IntentsFile(None)), File(KeywordsFile), File(RegexPatternsFile))}, ExtraFiles)

NextBlocks ==
    \/ LoadIntents
    \/ LoadKeywords
    \/ LoadRegexPatterns
    \/ LoadBlocks
    \/ BuildRecognizers
    \/ BuildSlotFillers
    \/ EditExtra
    \/ Reload

SpecBlocks == InitBlocks /\ [][NextBlocks]_vars

----------------------------------------------------------------------------
(* The pattern and keyword recognizers under every rule set.                *)

\* The weights of keywords.json: 0, below 0.85, 1, above 1.
Weights == {Rat(0, 1), Rat(1, 2), Rat(4, 5), Rat(1, 1), Rat(2, 1)}

\* The entries of keywords.json for a first and for a second intent.
FirstKeywordEntries ==
    {[intent |-> "book_flight", keywords |-> kws, must_keywords |-> must, exclude_keywords |-> excl, weight |-> w] :
        kws \in {<<>>, << <<"f", "l">> >>, << <<"f", "l">>, <<"t", "k">> >>},
        must \in {<<>>, << <<"t", "k">> >>},
        excl \in {<<>>, << <<"n", "o">> >>},
        w \in Weights}
SecondKeywordEntries ==
    {[intent |-> "status", keywords |-> kws, must_keywords |-> must, exclude_keywords |-> <<>>, weight |-> w] :
        kws \in {<< <<"s">>, <<"q">> >>, << <<"F", "l">>, <<"s">> >>},
        must \in {<<>>, << <<"s">> >>},
        w \in {Rat(4, 5), Rat(1, 1), Rat(2, 1)}}

\* keywords.json: no intent, one, or two.
KeywordRuleSets ==
    {<<>>} \cup {<<a>> : a \in FirstKeywordEntries}
           \cup {<<a, b>> : a \in FirstKeywordEntries, b \in SecondKeywordEntries}

\* regex_patterns.json: no rule, and two rule sets.
RegexRuleSets == {EmptyRegexPatterns, RegexPatternsFile, RegexPatternsFile2}

RuleTexts == {T_empty, T_ok, T_fly, T_fly_to, T_s, T_sq, T_tk_no}

InitRules ==
    InitEngine({[intents |-> IntentsFile(None), keywords |-> k, regex_patterns |-> r] :
                   k \in KeywordRuleSets, r \in RegexRuleSets},
               {None}, {BuiltinRecognizers(0, 0, 0)}, {<<DefaultSlotFiller>>}, {Null}, RuleTexts,
               Contexts({None, "cancel"}, {None}))

NextRules ==
    \/ Preprocess
    \/ Submit
    \/ WaitFuture
    \/ ExitPool
    \/ Fuse
    \/ FillSlots

SpecRules == InitRules /\ [][NextRules]_vars

----------------------------------------------------------------------------
(* Slot filling by the default filler under two rule sets.                  *)

\* regex_patterns.json with named groups around a part of the pattern and
\* with named groups that take no part in the match:
\*   book_flight: "(?P<destination>fly)|(?P<date>\b\B)" (flag i)
\*   destination: "to (?P<destination>d1)" (flag i)
\*   date:        "o (?P<date>d)", "(?P<day>d1)"
\*   seat:        "o|(?P<seat>\b\B)" (flag i)
RegexPatternsFile3 ==
    [intents |-> << [intent |-> "book_flight",
                     patterns |-> << [pattern |-> <<"f", "l", "y">>, flags |-> "i", group |-> "destination",
                                      unmatched |-> "date"] >>] >>,
     slots |-> << [slot |-> "destination",
                   patterns |-> << [pattern |-> <<"t", "o", " ", "d", "1">>, flags |-> "i",
                                    group |-> "destination", span |-> <<4, 5>>] >>],
                  [slot |-> "date",
                   patterns |-> << [pattern |-> <<"o", " ", "d">>, flags |-> "", group |-> "date",
                                    span |-> <<3, 3>>],
                                   [pattern |-> <<"d", "1">>, flags |-> "", group |-> "day"] >>],
                  [slot |-> "seat",
                   patterns |-> << [pattern |-> <<"o">>, flags |-> "i", group |-> NoGroup,
                                    unmatched |-> "seat"] >>] >>]

T_to_d1 == <<"T", "o", " ", "d", "1">>
SlotTexts == {T_to_d1, T_fly_to, T_fly, T_d1, T_s, T_ok, T_cx}

\* process() with the default filler, with and without a collaborator, on
\* raw texts that the text processor changes or leaves alone.
InitSlots ==
    InitEngine({[ConfigManager(None) EXCEPT !.regex_patterns = r] : r \in {RegexPatternsFile, RegexPatternsFile3}},
               {None, "lower"}, {BuiltinRecognizers(0, 0, 0)}, {<<DefaultSlotFiller>>},
               {Null} \cup LlmFillers({"dict"}, {LlmBoth}, {0}), SlotTexts,
               Contexts({None, "book_flight", "status"}, {None}))

NextSlots ==
    \/ Preprocess
    \/ Submit
    \/ WaitFuture
    \/ ExitPool
    \/ Fuse
    \/ FillSlots
    \/ FillSlotsLLM

SpecSlots == InitSlots /\ [][NextSlots]_vars

----------------------------------------------------------------------------
(* Properties.                                                              *)

\* process() has left dispatch: the for loop and the with block are over.
Dispatched == pc \in {"fuse", "fill", "llm", "done", "raised"}
\* _fuse_results has returned.
FusedDone == pc \in {"fill", "llm", "done", "raised"}

\* No parse call waited for a worker: each started when it was submitted
\* (the pool had capacity for every recognizer).
NoQueueing == \A k \in 1..Len(futures) : futures[k].finish = recognizers[k].dur

RemoveAt(xs, k) == SubSeq(xs, 1, k - 1) \o SubSeq(xs, k + 1, Len(xs))

OnlyBuiltin == Len(recognizers) = 3
DefaultSelected == SelectFiller(slot_fillers, context).kind = "default"

\* The text seen by the recognizers hits no intent pattern and no keyword rule.
NoPatternHit ==
    \A k \in 1..Len(compiled_patterns) : \A j \in 1..Len(compiled_patterns[k].patterns) :
        PatternSearch(compiled_patterns[k].patterns[j], preprocessed) = Null
NoKeywordHit == \A k \in 1..Len(keywords_conf) : ScoreIntent(preprocessed, keywords_conf[k]) = RZero

\* C1: process() never raises: every failure of a collaborator, the selected
\* slot filler included, degrades and a result is returned.
C1_ProcessNeverRaises == pc # "raised"

\* C2: a recognizer whose parse raises contributes nothing, and the other
\* results are fused exactly as if it were not registered.
C2_RaisingAsIfNotRegistered ==
    (FusedDone /\ NoQueueing) =>
        \A k \in 1..Len(recognizers) :
            recognizers[k].outcome = "raise" =>
                /\ k \notin joined
                /\ fused = FuseResults(config,
                               RunRecognizers(RemoveAt(recognizers, k), compiled_patterns, keywords_conf,
                                              preprocessed, context, 0).results)

\* C3: a recognizer whose parse has not completed within
\* timeout_per_recognizer of its submission never contributes a result.
C3_TimeoutFromSubmission ==
    (Dispatched /\ NoQueueing) =>
        \A k \in 1..Len(recognizers) : recognizers[k].dur > TimeoutPerRecognizer => k \notin joined

\* C4: process() does not wait for an abandoned recognizer: fusion starts
\* when the last wait of the loop is over.
C4_NoWaitForAbandoned == pc = "fuse" => now = loop_end

\* C5: the waits of recognizer dispatch take at most one
\* timeout_per_recognizer in total when the pool has capacity for all.
C5_WaitsDoNotAddUp == (Dispatched /\ NoQueueing) => loop_end <= TimeoutPerRecognizer

\* C6: every slot key of the fused result keeps its value through the
\* default slot filler, the merge of the LLM mapping included.
C6_ExistingSlotsKept ==
    (pc = "done" /\ DefaultSelected) =>
        \A key \in DOMAIN fused.slots :
            key \in DOMAIN final_result.slots /\ final_result.slots[key] = fused.slots[key]

\* The surviving pattern-sourced results of confidence >= 0.8.
StrongRegex == {k \in 1..Len(results) : results[k].recognizer = "regex" /\ RLeq(Rat(8, 10), results[k].confidence)}
Untagged(r) == [r EXCEPT !.metadata = EmptyDict]

Best == {k \in joined : \A j \in joined : RLeq(futures[j].outcome.confidence, futures[k].outcome.confidence)}

\* C8: without a pattern-sourced result of confidence >= 0.8, fusion returns
\* the surviving result of highest confidence tagged "max_confidence", the
\* first registered among equals, whatever the order of completion.
C8_MaxConfidenceFirstRegistered ==
    (FusedDone /\ joined # {} /\ StrongRegex = {}) =>
        /\ fused.metadata["fusion_reason"] = "max_confidence"
        /\ \E k \in Best :
              /\ \A j \in Best : k <= j
              /\ fused.recognizer = recognizers[k].name
              /\ Untagged(fused) = Untagged(futures[k].outcome)
C8_Witness ==
    /\ FusedDone /\ StrongRegex = {}
    /\ \E k \in Best : \E j \in Best :
          k < j /\ futures[j].finish < futures[k].finish /\ fused.recognizer = recognizers[k].name

\* The unknown-intent sentinel of the loaded configuration.
IsSentinel(r) ==
    /\ r.intent = (IF config.intents.unknown_intent = None THEN "unknown" ELSE config.intents.unknown_intent)
    /\ r.confidence = RZero
    /\ r.recognizer = "system"
    /\ "reason" \in DOMAIN r.metadata /\ r.metadata["reason"] = "no_valid_result"

\* C9 as stated: with the built-in recognizers, a text without pattern or
\* keyword hit gives the sentinel when there is no last_intent or the text
\* has 10 or more characters; and fusion returns the sentinel exactly when
\* no result survives.
C9_AsStated ==
    /\ (pc = "done" /\ OnlyBuiltin /\ DefaultSelected /\ NoPatternHit /\ NoKeywordHit
           /\ (context.last_intent = None \/ Len(text) >= ShortTextLen))
       => IsSentinel(final_result)
    /\ FusedDone => (IsSentinel(fused) <=> results = <<>>)

\* C9: with the built-in recognizers, a text without pattern or keyword hit
\* gives the sentinel when there is no last_intent or the text stripped of
\* surrounding whitespace has 10 or more characters; and fusion returns the
\* sentinel exactly when no result survives.
C9_UnknownSentinel ==
    /\ (pc = "done" /\ OnlyBuiltin /\ DefaultSelected /\ NoPatternHit /\ NoKeywordHit
           /\ (context.last_intent = None \/ Len(Strip(text)) >= ShortTextLen))
       => IsSentinel(final_result)
    /\ FusedDone => (IsSentinel(fused) <=> results = <<>>)
C9_Witness ==
    /\ pc = "done" /\ OnlyBuiltin /\ NoPatternHit /\ NoKeywordHit
    /\ context.last_intent = "book_flight" /\ Len(Strip(text)) >= ShortTextLen
    /\ config.intents.unknown_intent = "no_intent"
    /\ final_result.intent = "no_intent"

LastIntentSet == context.last_intent # None /\ context.last_intent # ""
IsContinuation(r) ==
    /\ r.intent = context.last_intent
    /\ r.confidence = Rat(4, 10)
    /\ r.recognizer = "fsm"
    /\ r.raw_matches = [source |-> "last_intent"]
    /\ "fsm_reason" \in DOMAIN r.metadata /\ r.metadata["fsm_reason"] = "continue_last_intent"

\* C10 as stated: with last_intent set, a text of fewer than 10 characters
\* without pattern or keyword hit gives the last intent with confidence 0.4,
\* marked as a continuation; the continuation recognizer returns none for
\* every text of 10 or more characters.
C10_AsStated ==
    /\ (pc = "done" /\ OnlyBuiltin /\ DefaultSelected /\ NoPatternHit /\ NoKeywordHit
           /\ LastIntentSet /\ Len(text) < ShortTextLen)
       => IsContinuation(final_result)
    /\ (pc \in {"wait", "fuse", "fill", "llm", "done"} /\ Len(text) >= ShortTextLen)
       => futures[3].outcome = Null

\* C10: with last_intent set to a non-empty L, a text without pattern or
\* keyword hit that has fewer than 10 characters once surrounding whitespace
\* is stripped gives intent L with confidence 0.4, marked as a continuation
\* of the last intent; the continuation recognizer returns none when the
\* stripped text has 10 or more characters.
C10_Continuation ==
    /\ (pc = "done" /\ OnlyBuiltin /\ DefaultSelected /\ NoPatternHit /\ NoKeywordHit
           /\ LastIntentSet /\ Len(Strip(text)) < ShortTextLen)
       => IsContinuation(final_result)
    /\ (pc \in {"wait", "fuse", "fill", "llm", "done"} /\ Len(Strip(text)) >= ShortTextLen)
       => futures[3].outcome = Null
C10_Witness ==
    /\ pc = "done" /\ OnlyBuiltin /\ NoPatternHit /\ NoKeywordHit /\ LastIntentSet
    /\ Len(text) >= ShortTextLen /\ Len(Strip(text)) < ShortTextLen
    /\ text_processor = "raise"
    /\ IsContinuation(final_result)

----------------------------------------------------------------------------
(* The anomaly classifier.                                                  *)

\* XwCustomSlotFiller.fill_slots has returned the classification of a batch.
Classified ==
    /\ pc = "done"
    /\ selected_filler = XwCustomSlotFiller
    /\ "anomalies" \in DOMAIN final_result.slots
Anomalies == final_result.slots["anomalies"]

\* Record k of the batch d names exactly one satellite.
OneSatellite(d, k) == d[k].satellites # Null /\ Len(d[k].satellites.keys) = 1
\* The records a..b of d are two or more records naming the same one satellite.
SameSatellite(d, a, b) ==
    /\ a < b
    /\ \A k \in a..b : OneSatellite(d, k) /\ d[k].satellites.keys[1] = d[a].satellites.keys[1]
\* The maximal runs of d, as pairs <<first, last>>.
Runs(d) ==
    {r \in (1..Len(d)) \X (1..Len(d)) :
        /\ SameSatellite(d, r[1], r[2])
        /\ r[1] = 1 \/ ~SameSatellite(d, r[1] - 1, r[2])
        /\ r[2] = Len(d) \/ ~SameSatellite(d, r[1], r[2] + 1)}
InRun(d, k) == \E r \in Runs(d) : r[1] <= k /\ k <= r[2]
\* The j-th element of a set of positions, and of a set of runs.
Nth(S, j) == CHOOSE k \in S : Cardinality({m \in S : m <= k}) = j
NthRun(R, j) == CHOOSE r \in R : Cardinality({q \in R : q[1] <= r[1]}) = j

\* C11: the multi-pass bucket holds, in batch order, exactly one entry per
\* maximal run of two or more consecutive records naming the same single
\* satellite, with the satellite, the start_time of the first record of the
\* run, the end_time of its last record and the length of the run.
C11_MultiPassRuns ==
    Classified =>
        LET d == DataList(fused)
            bucket == Anomalies[multi_pass_key]
        IN /\ Len(bucket) = Cardinality(Runs(d))
           /\ \A j \in 1..Len(bucket) :
                 LET r == NthRun(Runs(d), j)
                 IN bucket[j] = [satellite |-> d[r[1]].satellites.keys[1],
                                 start_time |-> Str(d[r[1]].start_time),
                                 end_time |-> Str(d[r[2]].end_time),
                                 pass_count |-> r[2] - r[1] + 1]
\* The batch A, A, A, B, [A, B] has given one entry of three passes.
C11_Witness ==
    /\ Classified
    /\ [k \in 1..Len(DataList(fused)) |-> DataList(fused)[k].satellites]
           = <<Satellites(<<"A0015">>), Satellites(<<"A0015">>), Satellites(<<"A0015">>),
               Satellites(<<"B0002">>), Satellites(<<"A0015", "B0002">>)>>
    /\ Anomalies[multi_pass_key]
           = <<[satellite |-> "A0015", start_time |-> <<"9">>, end_time |-> <<"1", "4">>, pass_count |-> 3]>>

RECURSIVE SumPassCount(_)
SumPassCount(bucket) == IF bucket = <<>> THEN 0 ELSE Head(bucket).pass_count + SumPassCount(Tail(bucket))

\* The records of one satellite outside every run, those of several
\* satellites, and those without satellite.
SinglePassRecords(d) == {k \in 1..Len(d) : OneSatellite(d, k) /\ ~InRun(d, k)}
MultiSatRecords(d) == {k \in 1..Len(d) : d[k].satellites # Null /\ Len(d[k].satellites.keys) > 1}
SkippedRecords(d) == {k \in 1..Len(d) : d[k].satellites = Null \/ Len(d[k].satellites.keys) = 0}

\* C12: every record is accounted for exactly once: the single-pass bucket
\* holds, in batch order, one entry with its own times per record of one
\* satellite outside every run, the multi-satellite bucket one entry with
\* the names per record of several satellites, a record without satellite
\* gives no entry, and the pass counts, the single-pass entries, the
\* multi-satellite entries and the skipped records add up to the batch.
C12_EveryRecordOnce ==
    Classified =>
        LET d == DataList(fused)
            single == Anomalies[single_pass_key]
            multi == Anomalies[multi_sat_key]
        IN /\ DOMAIN Anomalies = {multi_pass_key, single_pass_key, multi_sat_key}
           /\ Len(single) = Cardinality(SinglePassRecords(d))
           /\ \A j \in 1..Len(single) :
                 LET k == Nth(SinglePassRecords(d), j)
                 IN single[j] = [satellite |-> d[k].satellites.keys[1],
                                 start_time |-> Str(d[k].start_time), end_time |-> Str(d[k].end_time)]
           /\ Len(multi) = Cardinality(MultiSatRecords(d))
           /\ \A j \in 1..Len(multi) :
                 LET k == Nth(MultiSatRecords(d), j)
                 IN /\ multi[j].satellites = d[k].satellites.keys
                    /\ multi[j].start_time = Str(d[k].start_time)
                    /\ multi[j].end_time = Str(d[k].end_time)
           /\ SumPassCount(Anomalies[multi_pass_key]) + Len(single) + Len(multi)
                  + Cardinality(SkippedRecords(d)) = Len(d)
\* The batch A, A, None, B, [A, B] has given one single-pass entry for B, one
\* multi-satellite entry and one skipped record.
C12_Witness ==
    /\ Classified
    /\ [k \in 1..Len(DataList(fused)) |-> DataList(fused)[k].satellites]
           = <<Satellites(<<"A0015">>), Satellites(<<"A0015">>), Null,
               Satellites(<<"B0002">>), Satellites(<<"A0015", "B0002">>)>>
    /\ Anomalies[single_pass_key]
           = <<[satellite |-> "B0002", start_time |-> <<"1", "5">>, end_time |-> <<"1", "6">>]>>
    /\ Len(Anomalies[multi_sat_key]) = 1
    /\ SumPassCount(Anomalies[multi_pass_key]) = 2

----------------------------------------------------------------------------
(* The rule store.                                                          *)

\* The engine has been built.
Constructed == pc \in {"start", "submit", "wait", "fuse", "fill", "llm", "done"}
\* Every rule file of d is readable, and the rule sets read from d.
Loadable(d) == ~LoadRaises(d.intents) /\ ~LoadRaises(d.keywords) /\ ~LoadRaises(d.regex_patterns)
Loaded(d) ==
    [intents |-> LoadJson(d.intents, EmptyIntents), keywords |-> LoadJson(d.keywords, EmptyKeywords),
     regex_patterns |-> LoadJson(d.regex_patterns, EmptyRegexPatterns)]
\* Every pattern of the rule sets r compiles.
AllCompile(r) == ~CompileRaises(r.regex_patterns.intents) /\ ~CompileRaises(r.regex_patterns.slots)
\* reload() has returned after the last edit of the rule files: the store
\* holds the rule sets of the edited files.
Reloaded ==
    /\ Constructed
    /\ Len(generations) > 1
    /\ load_pc = "idle"
    /\ Loadable(disk) /\ config = Loaded(disk) /\ AllCompile(config)

\* C13: after reload() following an edit of the keyword or regex rule file,
\* a call of process() on the same engine gets from its recognizers the
\* results the reloaded rules give, and fills the slots with the reloaded
\* slot patterns.
C13_ReloadReachesRecognizers ==
    /\ (Reloaded /\ Dispatched)
       => results = RunRecognizers(recognizers, CompilePatterns(config.regex_patterns), config.keywords,
                                   preprocessed, context, 0).results
    /\ (Reloaded /\ pc = "done" /\ GetIntentSlots(config, fused.intent) # <<>>)
       => final_result.slots = RegexPass(GetIntentSlots(config, fused.intent),
                                         CompileSlotPatterns(config.regex_patterns), fused.slots, text)

\* C14: at every point after construction, during and after a reload that
\* fails part-way included, the three rule sets of the store are those of
\* one and the same generation of the rule files.
C14_ReloadAllOrNothing ==
    Constructed => \E g \in 1..Len(generations) : Loadable(generations[g]) /\ config = Loaded(generations[g])

\* C15: constructing the engine never fails because of the rule files: a
\* missing or malformed file and a pattern that does not compile are
\* skipped.
C15_ConstructionNeverFails == pc # "init_failed"

----------------------------------------------------------------------------
(* The LLM fallback and the selection of the slot filler.                   *)

\* The collaborator raises, returns no mapping, or has not returned within
\* llm_timeout.
LlmDegraded == llm_filler.outcome \in {"raise", "nondict"} \/ llm_filler.dur > LlmTimeout
\* A slot declared required for the intent is absent from s.
RequiredAbsent(intent, s) ==
    \E k \in 1..Len(GetIntentSlots(config, intent)) :
        GetIntentSlots(config, intent)[k].required /\ GetIntentSlots(config, intent)[k].name \notin DOMAIN s

\* C16: when the collaborator raises, times out or returns no mapping,
\* fill_slots returns the result with exactly the slots it had after the
\* regex pass, the required slot still missing, and nothing is raised.
C16_LlmDegrades ==
    [][(pc = "llm" /\ LlmDegraded)
          => /\ pc' = "done"
             /\ final_result'.slots = slots
             /\ final_result'.slots = RegexPass(GetIntentSlots(config, fused.intent), slot_patterns,
                                                fused.slots, text)
             /\ RequiredAbsent(fused.intent, final_result'.slots)
             /\ [final_result' EXCEPT !.slots = fused.slots] = fused]_vars
C16_Witness ==
    /\ pc = "done" /\ llm_calls = 1
    /\ llm_filler.outcome = "nondict"
    /\ text = T_fly
    /\ final_result.slots = [destination |-> T_fly]

\* C17: the collaborator is called at most once per call of fill_slots, and
\* only when there is one and a required slot of the intent is absent after
\* the regex pass; it is not called when every required slot is present or
\* the intent declares no slot.
C17_LlmOnlyWhenNeeded ==
    /\ llm_calls <= 1
    /\ llm_calls = 1 => pc \in {"llm", "done"} /\ llm_filler # Null /\ selected_filler = DefaultSlotFiller
    /\ pc = "llm" => llm_calls = 1 /\ RequiredAbsent(fused.intent, slots)
    /\ (pc = "done" /\ ~RequiredAbsent(fused.intent, RegexPass(GetIntentSlots(config, fused.intent),
                                                               slot_patterns, fused.slots, text)))
       => llm_calls = 0
C17_Witness ==
    /\ pc = "done" /\ llm_calls = 0 /\ llm_filler # Null
    /\ selected_filler = DefaultSlotFiller
    /\ fused.intent = "status"
    /\ "date" \notin DOMAIN final_result.slots

\* C18: fill_slots waits for the collaborator no longer than llm_timeout:
\* it returns at the latest llm_timeout after it called the collaborator.
C18_LlmBoundedLatency == [][pc = "llm" => now' <= now + LlmTimeout]_vars

RECURSIVE TotalRunning(_)
TotalRunning(es) == IF es = <<>> THEN 0 ELSE Cardinality(Running(Head(es))) + TotalRunning(Tail(es))

\* C19: the recognizers of one engine are dispatched on one bounded pool
\* shared by the calls of process(): at any time at most one pool exists
\* and at most max_workers parse calls run, however many calls are in
\* progress.
C19_OneSharedPool ==
    /\ Cardinality({c \in 1..Len(executors) : executors[c].open}) <= 1
    /\ TotalRunning(executors) <= MaxWorkers

\* The positions of the registered fillers of the name the context gives.
Registered == {k \in 1..Len(slot_fillers) : slot_fillers[k].name = context.slot_filler}
NamesNoFiller == context.slot_filler = None \/ context.slot_filler = "" \/ Registered = {}

\* C20: the selection of the filler never fails: the first registered
\* filler of the name given by the context is the one called, and without
\* a name or with a name that is not registered the default filler is
\* called and process() raises nothing.
C20_FillerSelection ==
    selected_filler # Null =>
        /\ ~NamesNoFiller =>
              \E k \in Registered : (\A j \in Registered : k <= j) /\ selected_filler = slot_fillers[k]
        /\ NamesNoFiller => selected_filler = slot_fillers[1] /\ selected_filler = DefaultSlotFiller /\ pc # "raised"
C20_Witness ==
    /\ pc = "done"
    /\ context.slot_filler = "xw_slot_filler"
    /\ Cardinality(Registered) = 2
    /\ selected_filler = XwCustomSlotFiller

\* The on-demand recognizer of the engine and the outcome of its parse call.
XwIndex == CHOOSE k \in 1..Len(recognizers) : recognizers[k].kind = "xw"
XwOutcome == futures[XwIndex].outcome
Submitted == futures # <<>>

\* The trigger flag is absent from the context or false.
NoTrigger == "trigger_excel" \notin DOMAIN context \/ context.trigger_excel = FALSE

\* The context or the configuration of the excel type gives a value that
\* is not empty.
Resolvable(ctx_key, cfg_key) ==
    \/ ctx_key \in DOMAIN context /\ context[ctx_key] # ""
    \/ LET types == recognizers[XwIndex].excel_types_config
           excel_type == IF "excel_type" \in DOMAIN context THEN context.excel_type
                         ELSE recognizers[XwIndex].default_excel_type
       IN excel_type \in DOMAIN types /\ types[excel_type][cfg_key] # ""
NoPathOrSheet == ~Resolvable("execl_path", "excel_path") \/ ~Resolvable("sheet_name", "sheet_name")

\* C21: without the trigger flag (absent or false), and without a file path
\* or a sheet name in the context or the configuration, the on-demand
\* recognizer returns none and the sheet is never read.
C21_NoTriggerNoRead ==
    (NoTrigger \/ NoPathOrSheet) =>
        /\ sheet_reads = 0
        /\ Submitted => XwOutcome = Null
C21_Witness ==
    /\ pc = "done"
    /\ ~NoTrigger
    /\ NoPathOrSheet
    /\ "excel_type" \notin DOMAIN context
    /\ "merged" \in DOMAIN recognizers[XwIndex].excel_types_config
    /\ XwOutcome = Null
    /\ sheet_reads = 0

\* The for loop of _run_recognizers has waited on every future: each parse
\* call has returned, has raised or has timed out.
AllSettled == Len(futures) = Len(recognizers) /\ i = Len(futures) + 1

\* C22: within one call of process() the phases are dispatch, fusion and
\* slot filling, in that order and once each: the parse calls are submitted
\* once, one per registered recognizer, and never again; fusion happens once,
\* after the wait on every future has ended (result, exception or timeout);
\* the choice of the filler, its slots, the call of the LLM collaborator and
\* the final result come once fusion has chosen, and fusion is not redone.
C22_PhaseOrder ==
    [][/\ futures' # futures =>
             /\ futures = <<>> /\ fused = Null /\ selected_filler = Null
             /\ Len(futures') = Len(recognizers)
       /\ fused' # fused =>
             /\ fused = Null /\ AllSettled
             /\ selected_filler = Null /\ llm_calls = 0 /\ final_result = Null
       /\ (selected_filler' # selected_filler \/ llm_calls' # llm_calls
             \/ slots' # slots \/ final_result' # final_result) =>
             /\ fused # Null /\ fused' = fused /\ AllSettled /\ futures' = futures
       /\ selected_filler' # selected_filler => selected_filler = Null
       /\ pc' = "done" => final_result' # Null /\ fused # Null /\ selected_filler' # Null]_vars
C22_Witness ==
    /\ pc = "done"
    /\ Len(futures) = 5
    /\ \E k \in 1..Len(futures) : futures[k].finish > TimeoutPerRecognizer
    /\ \E k \in 1..Len(futures) : futures[k].outcome = Raised
    /\ fused # Null
    /\ final_result # Null

----------------------------------------------------------------------------
(* The pattern and keyword recognizers.                                     *)

\* What the parse call of the pattern recognizer and of the keyword
\* recognizer returned.
RegexOutcome == futures[CHOOSE k \in 1..Len(recognizers) : recognizers[k].kind = "regex"].outcome
KeywordOutcome == futures[CHOOSE k \in 1..Len(recognizers) : recognizers[k].kind = "keyword"].outcome

\* lo <= x <= hi
RBetween(lo, x, hi) == RLeq(lo, x) /\ RLeq(x, hi)

\* C23: for every text and every rule set with weights >= 0, a result of the
\* pattern recognizer has a confidence in [0.9, 1.0] and a result of the
\* keyword recognizer a confidence in [0, 0.85].
C23_ConfidenceRanges ==
    Submitted =>
        /\ RegexOutcome # Null => RBetween(Rat(9, 10), RegexOutcome.confidence, ROne)
        /\ KeywordOutcome # Null => RBetween(RZero, KeywordOutcome.confidence, Rat(85, 100))
C23_Witness ==
    /\ Submitted
    /\ RegexOutcome # Null /\ RegexOutcome.confidence = ROne
    /\ KeywordOutcome # Null /\ KeywordOutcome.confidence = Rat(85, 100)
    /\ \E k \in 1..Len(keywords_conf) : RLt(ROne, keywords_conf[k].weight)

\* The keyword occurs in the text handed to the recognizer, whatever the case.
Occurs(kw) == Contains(LowerText(kw), LowerText(preprocessed))
\* The number of keywords of the entry that occur.
Matched(conf) == Cardinality({k \in 1..Len(conf.keywords) : Occurs(conf.keywords[k])})
\* The score of the entry of an intent.
Score(conf) ==
    IF \E k \in 1..Len(conf.exclude_keywords) : Occurs(conf.exclude_keywords[k]) THEN RZero
    ELSE IF \E k \in 1..Len(conf.must_keywords) : ~Occurs(conf.must_keywords[k]) THEN RZero
    ELSE IF conf.keywords = <<>> THEN RZero
    ELSE RMin(RMul(Rat(Matched(conf), Len(conf.keywords)), conf.weight), Rat(85, 100))

\* C24: the keyword recognizer scores an intent 0 when an exclude-keyword
\* occurs or a must-keyword is absent, and min(matched / total * weight,
\* 0.85) otherwise; it returns the first-listed intent of the highest score
\* when that score is > 0, without slots, and none when every score is 0.
C24_KeywordScoring ==
    Submitted =>
        IF \A k \in 1..Len(keywords_conf) : Score(keywords_conf[k]) = RZero
        THEN KeywordOutcome = Null
        ELSE \E k \in 1..Len(keywords_conf) :
                /\ \A j \in 1..Len(keywords_conf) : RLeq(Score(keywords_conf[j]), Score(keywords_conf[k]))
                /\ \A j \in 1..(k - 1) : RLt(Score(keywords_conf[j]), Score(keywords_conf[k]))
                /\ KeywordOutcome # Null
                /\ KeywordOutcome.intent = keywords_conf[k].intent
                /\ KeywordOutcome.confidence = Score(keywords_conf[k])
                /\ KeywordOutcome.recognizer = "keyword"
                /\ KeywordOutcome.slots = EmptyDict
C24_Witness ==
    /\ Submitted
    /\ Len(keywords_conf) = 2
    /\ RLt(RZero, Score(keywords_conf[1]))
    /\ Score(keywords_conf[1]) = Score(keywords_conf[2])
    /\ RLt(Score(keywords_conf[1]), Rat(85, 100))
    /\ KeywordOutcome # Null
    /\ KeywordOutcome.intent = keywords_conf[1].intent

----------------------------------------------------------------------------
(* The default slot filler.                                                 *)

\* The slots declared for the fused intent, and the compiled patterns of a
\* slot that match the raw text.
Declared == GetIntentSlots(config, fused.intent)
Matching(name) ==
    {j \in 1..Len(SlotPatternsOf(slot_patterns, name)) :
        PatternSearch(SlotPatternsOf(slot_patterns, name)[j], text) # Null}
\* The regex pass of the default filler is over and the LLM collaborator has
\* not changed its slots.
RegexPassDone == selected_filler = DefaultSlotFiller /\ Declared # <<>> /\ (pc = "llm" \/ (pc = "done" /\ llm_calls = 0))

\* C25: a declared slot that the fused result does not have is searched
\* with its patterns in declared order in the raw text of process(); the
\* first pattern that matches gives the value, its group named like the slot
\* when it has one and the whole match otherwise; without a matching pattern
\* the slot stays absent.
C25_SlotPatterns ==
    RegexPassDone =>
        \A k \in 1..Len(Declared) :
            LET name == Declared[k].name
                pats == SlotPatternsOf(slot_patterns, name)
            IN name \notin DOMAIN fused.slots =>
                  IF Matching(name) = {} THEN name \notin DOMAIN slots
                  ELSE LET j == CHOOSE q \in Matching(name) : \A r \in Matching(name) : q <= r
                           m == PatternSearch(pats[j], text)
                       IN /\ name \in DOMAIN slots
                          /\ slots[name] = IF pats[j].group = name \/ pats[j].unmatched = name
                                           THEN m.groupdict[name] ELSE m.group0
C25_Witness ==
    /\ RegexPassDone
    /\ text_processor = "lower"
    /\ preprocessed # text
    /\ fused.slots = EmptyDict
    /\ Cardinality(Matching("date")) = 2
    /\ slots.date = <<"d">>
    /\ slots.destination = <<"d", "1">>

\* The results that reached fusion, by recognizer.
Surviving(recognizer) == {k \in 1..Len(results) : results[k].recognizer = recognizer}

\* C26: fusion follows the priority regex > keyword > others: when it adopts
\* no result of the pattern recognizer, a result of the keyword recognizer
\* that reached it is the one it returns, whatever a recognizer of lower
\* priority (the continuation recognizer) returned.
C26_KeywordBeforeOthers ==
    (fused # Null /\ fused.recognizer # "regex" /\ Surviving("keyword") # {}) => fused.recognizer = "keyword"


----------------------------------------------------------------------------
(* Termination of the anomaly classifier.                                   *)

\* C27: the scan of the anomaly classifier advances by at least one record
\* at each iteration of its while loop, whatever the record (an empty
\* mapping and a satellites value that is no mapping included), so that it
\* terminates on every finite batch.
C27_ScanAdvances == [][xw_iters' = xw_iters + 1 => xw_i' >= xw_i + 1]_vars

----------------------------------------------------------------------------
(* Named groups that take no part in a match.                               *)

\* C28: every slot of the result of process() with the default filler has
\* a matched value: a named group of the winning intent pattern that took no
\* part in the match is no filled slot (the patterns of the slot and, for a
\* required slot, the LLM collaborator are still to be tried for it).
C28_SlotsCarryValues ==
    (pc = "done" /\ selected_filler = DefaultSlotFiller) =>
        \A name \in DOMAIN final_result.slots : final_result.slots[name] # NoMatch

----------------------------------------------------------------------------
(* The named configuration blocks of the rule store.                        *)

\* _load_all returns without an exception.
LoadReturns == load_pc = "blocks" /\ load_pc' = "idle"
\* The additional rule file as the load that returns has parsed it.
ParsedBlocks == LoadJson(extra_disk, EmptyDict)

\* C29: when a load of the rule files returns, the first one and every
\* reload(), each top-level key of an additional rule file that is not a
\* typed accessor is an attribute of the store holding the value found in
\* the file as just parsed; the typed accessors intents, keywords and
\* regex_patterns keep the values of their own files, whatever top-level
\* keys the additional file has.
C29_ReloadRefreshesBlocks ==
    [][LoadReturns =>
          /\ \A key \in DOMAIN ParsedBlocks \ TypedAccessors :
                 key \in DOMAIN blocks' /\ blocks'[key] = ParsedBlocks[key]
          /\ config' = Loaded(disk)
          /\ DOMAIN blocks' \cap TypedAccessors = {}]_vars

----------------------------------------------------------------------------
(* The on-demand recognizer against the other recognizers.                  *)

\* The parse call of the on-demand recognizer has returned a result with a
\* record batch that is not empty, and the for loop has appended it.
DomainResultJoined ==
    /\ Submitted
    /\ XwIndex \in joined
    /\ XwOutcome # Null
    /\ DataList(XwOutcome) # <<>>

\* C30: with the on-demand recognizer registered, the trigger flag set and
\* the anomaly slot filler selected by name, a call in which the recognizer
\* has returned a non-empty record batch within its timeout returns the
\* domain result (intent excel_interruption_analysis, confidence 1.0) whose
\* slots['anomalies'] is the classification of that batch, whatever the
\* other recognizers have returned for the text.
C30_DomainResultWins ==
    (/\ pc = "done"
     /\ ~NoTrigger
     /\ context.slot_filler = "xw_slot_filler"
     /\ DomainResultJoined)
    => /\ final_result.intent = "excel_interruption_analysis"
       /\ final_result.confidence = ROne
       /\ DataList(final_result) = DataList(XwOutcome)
       /\ "anomalies" \in DOMAIN final_result.slots
       /\ final_result.slots.anomalies = anomaly_result

====
